---- MODULE Spec2Model ----
(***************************************************************************)
(* Two-way SMS demo: the conversation orchestrator (module-level session   *)
(* state, message log, setTimeout callbacks, the in-flight classifier      *)
(* calls), modelled from the application source.                           *)
(*                                                                         *)
(* Time is counted in units of 500 ms.  A setTimeout callback is an entry  *)
(* of `timers` with the number of units left; entries that are due run in  *)
(* the order in which they were scheduled.                                 *)
(***************************************************************************)
EXTENDS Integers, Sequences, FiniteSets, TLC

VARIABLES
  currentState,            \* let currentState: ConversationState
  scheduledDateTime,       \* <<>> is null, else <<date, hours24, minutes>>
  messages,                \* const messages: Message[]
  activeTab,               \* 'chat' | 'dialogue'
  isAfter24HourFollowup,
  userHasStopped,
  selectedWorkflow,
  selectedVersion,
  aiEnabled,
  callingOverlay,          \* #callingOverlay is displayed
  callScreenOverlay,       \* #callScreenOverlay is displayed
  dateTimeModal,           \* #dateTimeModal is displayed
  inputArea,               \* what #inputArea holds: [kind, options]
  editorItems,             \* number of log entries the dialogue editor shows
  timers,                  \* pending setTimeout callbacks, in scheduling order
  inFlight,                \* texts whose classifier call has not returned yet
  apiKey,                  \* VITE_OPENAI_API_KEY: "set", "unset", "unread" until first read
  lastEvent,               \* the handler that ran in the last step
  eventsLeft,              \* user events still allowed in this run, by kind
  call                     \* the arguments of the one call a run of a single
                           \* function makes: <<>> in the runs of the page

vars == <<currentState, scheduledDateTime, messages, activeTab,
          isAfter24HourFollowup, userHasStopped, selectedWorkflow,
          selectedVersion, aiEnabled, callingOverlay, callScreenOverlay,
          dateTimeModal, inputArea, editorItems, timers, inFlight,
          apiKey, lastEvent, eventsLeft, call>>

-----------------------------------------------------------------------------
(* Bounds *)

\* user events (clicks and submissions of any kind) in one run
MaxEvents == 2

\* of these, restarts: back, workflow, version and AI buttons
MaxResets == 1

\* of these, clicks on a state box of the diagram
MaxClicks == 1

\* of these, uses of the dialogue editor: tab buttons and Save
MaxEdits == 2

-----------------------------------------------------------------------------
(* Strings: JavaScript's trim, toUpperCase, toLowerCase and includes *)

LowerLetters == "abcdefghijklmnopqrstuvwxyz"
UpperLetters == "ABCDEFGHIJKLMNOPQRSTUVWXYZ"

CharAt(str, i) == SubSeq(str, i, i)

toUpperCaseChar(c) ==
  IF \E i \in 1..26 : CharAt(LowerLetters, i) = c
  THEN CharAt(UpperLetters, CHOOSE i \in 1..26 : CharAt(LowerLetters, i) = c)
  ELSE c

toLowerCaseChar(c) ==
  IF \E i \in 1..26 : CharAt(UpperLetters, i) = c
  THEN CharAt(LowerLetters, CHOOSE i \in 1..26 : CharAt(UpperLetters, i) = c)
  ELSE c

RECURSIVE toUpperCase(_)
toUpperCase(str) ==
  IF Len(str) = 0 THEN ""
  ELSE toUpperCaseChar(CharAt(str, 1)) \o toUpperCase(SubSeq(str, 2, Len(str)))

RECURSIVE toLowerCase(_)
toLowerCase(str) ==
  IF Len(str) = 0 THEN ""
  ELSE toLowerCaseChar(CharAt(str, 1)) \o toLowerCase(SubSeq(str, 2, Len(str)))

RECURSIVE trimStart(_)
trimStart(str) ==
  IF Len(str) > 0 /\ CharAt(str, 1) = " "
  THEN trimStart(SubSeq(str, 2, Len(str)))
  ELSE str

RECURSIVE trimEnd(_)
trimEnd(str) ==
  IF Len(str) > 0 /\ CharAt(str, Len(str)) = " "
  THEN trimEnd(SubSeq(str, 1, Len(str) - 1))
  ELSE str

trim(str) == trimEnd(trimStart(str))

includes(str, pattern) ==
  \E i \in 1..(Len(str) - Len(pattern) + 1) :
    SubSeq(str, i, i + Len(pattern) - 1) = pattern

-----------------------------------------------------------------------------
(* Fixed texts and option sets *)

ADT_INTRO_MESSAGE == "Hi, I'm ADT's Digital Assistant powered by AI! This chat may be monitored or recorded. Msg&DataRatesApply. STOP2end"

ResponseCategory ==
  {"Yes", "Call at a different time", "No", "24 hours later (No response)",
   "Do not contact", "Unknown message"}

CallQuestionOptions ==
  <<"Yes", "Call at a different time", "No", "24 hours later (No response)",
    "Do not contact", "Unknown message">>

YesNoOptions == <<"Yes", "No">>

ConfirmVisitOptions == <<"Yes", "No", "Cancel Appointment", "DNC", "Unknown message">>

WebformReceivedText == "We received your interest form! We are calling now."
ProductReceivedText == "We received your product question! We are calling now to help."
WebformQuestionText == "Hello, we just called to reach out about our product! Would you like us to call you back?"
ProductQuestionText == "Hello, we received your product question. Would you like us to call you back to help?"
WebformFollowupText == "Hello, we called yesterday to reach out about our product! Would you like to schedule a time for us to call you?"
ProductFollowupText == "Hello, we called yesterday about your product question. Would you like to schedule a time for us to call you?"
BetterTimeText == "Is there a better time that we can call you?"
AfterCancelText == "No date and time selected. Would you like to select a date and time for us to call you back?"
NiceDayText == "Have a nice day!"
UnknownText == "Unknown message received, transferring to messaging agent."
EndCallText == "Thank you for calling us! We will keep in contact using this number."
ConfirmVisitPromptText == "Hey John, you have a consultation scheduled for {dateTime} at 123 Main Street, Anytown, ST 12345. A certified technician will be arriving. Will you be available for this appointment?"
ConfirmVisitConfirmedText == "Great! We will see you then."
ConfirmVisitRescheduleText == "Is there a better time we could reschedule the appointment for?"
ConfirmVisitDncText == "Your appointment has been canceled and you will no longer receive notifications from this number."
ConfirmVisitCancelledText == "Your appointment has been canceled, please reach out if you would like to reschedule."

ConfirmVisitStates ==
  {"confirm_visit_initial", "confirm_visit_waiting", "confirm_visit_confirmed",
   "confirm_visit_reschedule_question", "confirm_visit_reschedule_waiting",
   "confirm_visit_reschedule_selecting_time", "confirm_visit_cancelled",
   "confirm_visit_dnc"}

GenericStates ==
  {"initial", "calling", "call_accepted", "call_declined", "asking_if_wants_call",
   "waiting_for_response", "scheduling_time", "time_scheduled",
   "asking_better_time", "asking_after_cancel", "followup_next_day",
   "unknown", "ended"}

ConversationState == GenericStates \cup ConfirmVisitStates

Message(sender, text, options) ==
  [sender |-> sender, text |-> text, options |-> options]

-----------------------------------------------------------------------------
(* The session as a record, so that a handler is a function from the       *)
(* session before to the session after, composed as the code composes it.  *)

Session ==
  [currentState |-> currentState, scheduledDateTime |-> scheduledDateTime,
   messages |-> messages, activeTab |-> activeTab,
   isAfter24HourFollowup |-> isAfter24HourFollowup,
   userHasStopped |-> userHasStopped, selectedWorkflow |-> selectedWorkflow,
   selectedVersion |-> selectedVersion, aiEnabled |-> aiEnabled,
   callingOverlay |-> callingOverlay, callScreenOverlay |-> callScreenOverlay,
   dateTimeModal |-> dateTimeModal, inputArea |-> inputArea,
   editorItems |-> editorItems, timers |-> timers, inFlight |-> inFlight]

NoInput == [kind |-> "none", options |-> <<>>]

clearInputArea(s) == [s EXCEPT !.inputArea = NoInput]

\* AI enabled: a text input; AI disabled: one button per option
renderOptions(s, options) ==
  [s EXCEPT !.inputArea =
     IF s.aiEnabled THEN [kind |-> "text", options |-> <<>>]
     ELSE [kind |-> "buttons", options |-> options]]

renderMessages(s) ==
  IF Len(s.messages) > 0
     /\ s.messages[Len(s.messages)].options # <<>>
     /\ s.messages[Len(s.messages)].sender = "bot"
  THEN renderOptions(s, s.messages[Len(s.messages)].options)
  ELSE clearInputArea(s)

renderDialogueEditor(s) == [s EXCEPT !.editorItems = Len(s.messages)]

\* messages.length = 0: the entries the dialogue editor still shows carry ids
\* that no entry of the log has any more
clearMessages(s) == [s EXCEPT !.messages = <<>>, !.editorItems = 0]

\* addMessage putting the disclosure before every bot message
addMessage_disclosureEveryTime(s, sender, text, options) ==
  IF sender = "bot" /\ s.userHasStopped THEN s
  ELSE
  LET s1 == IF sender = "bot"
            THEN [s EXCEPT !.messages = Append(@, Message("bot", ADT_INTRO_MESSAGE, <<>>))]
            ELSE s
      s2 == [s1 EXCEPT !.messages = Append(@, Message(sender, text, options))]
      s3 == renderMessages(s2)
  IN  IF s3.activeTab = "dialogue" THEN renderDialogueEditor(s3) ELSE s3

addMessage_noStopCheck(s, sender, text, options) ==
  LET s1 == IF sender = "bot" /\ Len(s.messages) = 0
            THEN [s EXCEPT !.messages = Append(@, Message("bot", ADT_INTRO_MESSAGE, <<>>))]
            ELSE s
      s2 == [s1 EXCEPT !.messages = Append(@, Message(sender, text, options))]
      s3 == renderMessages(s2)
  IN  IF s3.activeTab = "dialogue" THEN renderDialogueEditor(s3) ELSE s3

addMessage(s, sender, text, options) ==
  IF sender = "bot" /\ s.userHasStopped THEN s
  ELSE
  LET s1 == IF sender = "bot" /\ Len(s.messages) = 0
            THEN [s EXCEPT !.messages = Append(@, Message("bot", ADT_INTRO_MESSAGE, <<>>))]
            ELSE s
      s2 == [s1 EXCEPT !.messages = Append(@, Message(sender, text, options))]
      s3 == renderMessages(s2)
  IN  IF s3.activeTab = "dialogue" THEN renderDialogueEditor(s3) ELSE s3

\* a callback is a sequence of steps: the first runs when the timer fires and
\* the rest is what it passes to its own nested setTimeout
Step(op, text, options) == [op |-> op, text |-> text, options |-> options]
Callback(op) == <<Step(op, "", <<>>)>>
BotStep(text, options) == Step("addBotMessage", text, options)
UserStep(text) == Step("addUserMessage", text, <<>>)

\* `stale` is bookkeeping for the properties, absent from the code: TRUE once
\* a resetConversation has run since the callback was scheduled
setTimeout(s, units, steps) ==
  [s EXCEPT !.timers = Append(@, [rem |-> units, steps |-> steps, stale |-> FALSE])]

\* marks what is pending when resetConversation runs; the code cancels nothing
abandoned(s) ==
  [s EXCEPT !.timers = [i \in 1..Len(@) |-> [@[i] EXCEPT !.stale = TRUE]],
            !.inFlight = [i \in 1..Len(@) |-> [@[i] EXCEPT !.stale = TRUE]]]

\* what a stale callback schedules (beyond the first n entries) is stale too
inherited(s, n, stale) ==
  [s EXCEPT !.timers = [i \in 1..Len(@) |->
                          IF i > n /\ stale THEN [@[i] EXCEPT !.stale = TRUE]
                          ELSE @[i]]]

MessageDelay == 1      \* 500 ms
CallDelay == 3         \* 1500 ms
AnimationDuration == 6 \* 3000 ms

showCallingNotification(s) ==
  [s EXCEPT !.currentState = "calling", !.callingOverlay = TRUE]

hideCallingNotification(s) == [s EXCEPT !.callingOverlay = FALSE]

showCallScreen(s) == [s EXCEPT !.callScreenOverlay = TRUE]

hideCallScreen(s) == [s EXCEPT !.callScreenOverlay = FALSE]

openDateTimeModalAndSetup(s) == [s EXCEPT !.dateTimeModal = TRUE]

showDateTimePicker(s) ==
  openDateTimeModalAndSetup([s EXCEPT !.currentState = "scheduling_time"])

showConfirmVisitRescheduleDateTimePicker(s) == openDateTimeModalAndSetup(s)

showTimePassingAnimation(s) ==
  setTimeout(s, AnimationDuration, Callback("animationComplete"))

\* startProductQuestionConversation without its first message
startProductQuestionConversation_noMessage(s) ==
  setTimeout(s, CallDelay, Callback("showCallingNotification"))

startProductQuestionConversation(s) ==
  setTimeout(addMessage(s, "bot", ProductReceivedText, <<>>),
             CallDelay, Callback("showCallingNotification"))

startConfirmVisitConversation(s) ==
  setTimeout([s EXCEPT !.currentState = "confirm_visit_initial"],
             MessageDelay, Callback("confirmVisitInitialMessage"))

startConversation(s) ==
  LET s1 == [clearMessages(s) EXCEPT !.currentState = "initial",
                                     !.userHasStopped = FALSE,
                                     !.scheduledDateTime = <<>>,
                                     !.isAfter24HourFollowup = FALSE]
  IN  IF s1.selectedWorkflow = "product question"
      THEN startProductQuestionConversation(s1)
      ELSE IF s1.selectedWorkflow = "confirm visit"
      THEN startConfirmVisitConversation(s1)
      ELSE setTimeout(
             IF s1.selectedVersion = "A"
             THEN addMessage(s1, "bot", WebformReceivedText, <<>>)
             ELSE s1,
             CallDelay, Callback("showCallingNotification"))

\* resetConversation without the clearing and without the restart
resetConversation_onlyHides(s) ==
  clearInputArea([hideCallScreen(hideCallingNotification(abandoned(s)))
                    EXCEPT !.dateTimeModal = FALSE])

resetConversation(s) ==
  LET s1 == [clearMessages(abandoned(s)) EXCEPT !.currentState = "initial",
                                     !.userHasStopped = FALSE,
                                     !.scheduledDateTime = <<>>,
                                     !.isAfter24HourFollowup = FALSE]
      s2 == hideCallScreen(hideCallingNotification(s1))
      s3 == clearInputArea([s2 EXCEPT !.dateTimeModal = FALSE])
  IN  startConversation(s3)

-----------------------------------------------------------------------------
(* Categorizer: the part that runs before the first await, and the         *)
(* pattern-matching fallback                                               *)

some(patterns, text) == \E k \in 1..Len(patterns) : includes(text, patterns[k])

IsDigit(c) == c \in {"0", "1", "2", "3", "4", "5", "6", "7", "8", "9"}

\* /\d{1,2}:\d{2}/
MatchesClockTime(text) ==
  \E i \in 1..(Len(text) - 3) :
    /\ IsDigit(CharAt(text, i))
    /\ CharAt(text, i + 1) = ":"
    /\ IsDigit(CharAt(text, i + 2))
    /\ IsDigit(CharAt(text, i + 3))

\* /\d{1,2}\s*(am|pm)/i
MatchesHourAmPm(text) ==
  \E i \in 1..Len(text) : \E j \in (i + 1)..(Len(text) - 1) :
    /\ IsDigit(CharAt(text, i))
    /\ \A k \in (i + 1)..(j - 1) : CharAt(text, k) = " "
    /\ toLowerCase(SubSeq(text, j, j + 1)) \in {"am", "pm"}

dncPatterns ==
  <<"do not contact", "don't contact", "stop calling", "stop texting", "remove me",
    "unsubscribe", "opt out", "do not call", "don't call", "never call", "no more calls",
    "take me off", "remove from list", "dnc", "do not call list">>

timePatterns ==
  <<"call at", "call me at", "call back at", "different time", "another time",
    "later", "tomorrow", "next week", "schedule", "appointment", "when can",
    "what time", "what day", "monday", "tuesday", "wednesday", "thursday", "friday",
    "saturday", "sunday", "morning", "afternoon", "evening", "am", "pm",
    "between", "after", "before">>

yesPatterns ==
  <<"yes", "yeah", "yep", "sure", "ok", "okay", "sounds good", "that works",
    "go ahead", "please do", "call me", "call back", "reach out", "contact me",
    "i'm interested", "interested", "definitely", "absolutely", "of course">>

noPatterns ==
  <<"no", "nope", "not interested", "not now", "maybe later", "not right now",
    "can't", "cannot", "busy", "not available", "not a good time", "decline",
    "pass", "not at this time">>

\* the pattern matching with the time patterns tried before the others
categorizeUserResponsePatternMatching_timeFirst(userText) ==
  LET text == trim(toLowerCase(userText))
  IN  IF some(timePatterns, text) \/ MatchesClockTime(text) \/ MatchesHourAmPm(text)
      THEN "Call at a different time"
      ELSE IF some(dncPatterns, text) THEN "Do not contact"
      ELSE IF some(yesPatterns, text) THEN "Yes"
      ELSE IF some(noPatterns, text) THEN "No"
      ELSE "Unknown message"

categorizeUserResponsePatternMatching(userText) ==
  LET text == trim(toLowerCase(userText))
  IN  IF some(dncPatterns, text) THEN "Do not contact"
      ELSE IF some(timePatterns, text) \/ MatchesClockTime(text) \/ MatchesHourAmPm(text)
      THEN "Call at a different time"
      ELSE IF some(yesPatterns, text) THEN "Yes"
      ELSE IF some(noPatterns, text) THEN "No"
      ELSE "Unknown message"

confirmVisitPatterns ==
  <<"confirm a visit", "confirm the visit", "confirm my visit", "confirm visit",
    "confirm a appointment", "confirm the appointment", "confirm my appointment",
    "confirm appointment", "confirm my consultation", "confirm the consultation",
    "confirm consultation", "want to confirm a visit", "want to confirm visit",
    "actually want to confirm", "actually want to confirm a visit",
    "actually want to confirm my visit", "i want to confirm", "id like to confirm",
    "i'd like to confirm", "appointment confirmation", "confirm my scheduled">>

isConfirmVisitIntent(userText) ==
  some(confirmVisitPatterns, trim(toLowerCase(userText)))

\* The texts typed into the text input
Texts == {"  ", " Stop ", "I'd like to Confirm my appointment", "k", "not now"}

\* The text functions above tabulated over the typed texts and their trimmed
\* forms; the handlers read the tables
TypedTexts == Texts \cup {trim(value) : value \in Texts}
Trimmed == [str \in TypedTexts |-> trim(str)]
UpperCased == [str \in TypedTexts |-> toUpperCase(str)]
NormalizedLength == [str \in TypedTexts |-> Len(trim(toLowerCase(str)))]
PatternCategory ==
  [str \in TypedTexts |-> categorizeUserResponsePatternMatching(str)]
ConfirmVisitIntent == [str \in TypedTexts |-> isConfirmVisitIntent(str)]

\* The result categorizeUserResponse has without calling the classifier, or
\* "fetch" when it awaits the classifier's answer.
categorizeUserResponseSync(userText, ai, key) ==
  IF NormalizedLength[userText] < 2 THEN "24 hours later (No response)"
  ELSE IF ~ai THEN PatternCategory[userText]
  ELSE IF key THEN "fetch"
  ELSE PatternCategory[userText]

\* .replace(/^["']|["']$/g, ''): one quote taken from each end
stripQuotes(str) ==
  LET front == IF Len(str) > 0 /\ CharAt(str, 1) \in {"\"", "'"}
               THEN SubSeq(str, 2, Len(str)) ELSE str
  IN  IF Len(front) > 0 /\ CharAt(front, Len(front)) \in {"\"", "'"}
      THEN SubSeq(front, 1, Len(front) - 1) ELSE front

\* categoryMap, in the order of its keys
categoryMap ==
  << <<"yes", "Yes">>,
     <<"call at a different time", "Call at a different time">>,
     <<"no", "No">>,
     <<"24 hours later (no response)", "24 hours later (No response)">>,
     <<"24 hours later", "24 hours later (No response)">>,
     <<"no response", "24 hours later (No response)">>,
     <<"do not contact", "Do not contact">>,
     <<"do not call", "Do not contact">>,
     <<"dnc", "Do not contact">>,
     <<"unknown message", "Unknown message">>,
     <<"unknown", "Unknown message">> >>

\* the category the classifier's answer is taken for, "invalid" if none:
\* exact label, else key of categoryMap in lower case, else the first key
\* that the answer contains or that contains the answer
parseCategory(rawCategory) ==
  LET normalizedCategory == trim(stripQuotes(rawCategory))
      lowerCategory == toLowerCase(normalizedCategory)
      Exact == {k \in 1..Len(categoryMap) : categoryMap[k][1] = lowerCategory}
      Partial == {k \in 1..Len(categoryMap) :
                    \/ includes(lowerCategory, categoryMap[k][1])
                    \/ includes(categoryMap[k][1], lowerCategory)}
      first(S) == CHOOSE k \in S : \A j \in S : k <= j
  IN  IF normalizedCategory \in ResponseCategory THEN normalizedCategory
      ELSE IF Exact # {} THEN categoryMap[first(Exact)][2]
      ELSE IF Partial # {} THEN categoryMap[first(Partial)][2]
      ELSE "invalid"

\* what fetch and the reading of its response come to: fetch rejects, the
\* status is not ok, the body is not JSON, the body has no choices array,
\* or data.choices[0]?.message?.content is undefined or a string
ResponseKinds ==
  {"fetch throws", "status not ok", "body not JSON", "no choices",
   "no content", "content"}

\* categorizeUserResponse without the test of aiEnabled
categorizeUserResponse_ignoresToggle(userText, ai, key, response) ==
  LET fallbackCategory == categorizeUserResponsePatternMatching(userText)
      rawCategory == IF response.kind = "content" THEN trim(response.content) ELSE ""
      category == parseCategory(rawCategory)
  IN  IF Len(trim(toLowerCase(userText))) < 2
      THEN [category |-> "24 hours later (No response)", fetches |-> 0]
      ELSE IF ~key
      THEN [category |-> fallbackCategory, fetches |-> 0]
      ELSE IF response.kind \in {"fetch throws", "status not ok", "body not JSON",
                                 "no choices"}
      THEN [category |-> fallbackCategory, fetches |-> 1]
      ELSE IF category # "invalid"
      THEN [category |-> category, fetches |-> 1]
      ELSE [category |-> fallbackCategory, fetches |-> 1]

\* categorizeUserResponse without the test of the text's length
categorizeUserResponse_noLengthTest(userText, ai, key, response) ==
  LET fallbackCategory == categorizeUserResponsePatternMatching(userText)
      rawCategory == IF response.kind = "content" THEN trim(response.content) ELSE ""
      category == parseCategory(rawCategory)
  IN  IF ~ai \/ ~key
      THEN [category |-> fallbackCategory, fetches |-> 0]
      ELSE IF response.kind \in {"fetch throws", "status not ok", "body not JSON",
                                 "no choices"}
      THEN [category |-> fallbackCategory, fetches |-> 1]
      ELSE IF category # "invalid"
      THEN [category |-> category, fetches |-> 1]
      ELSE [category |-> fallbackCategory, fetches |-> 1]

\* categorizeUserResponse to its return: the category and the number of
\* fetch calls made
categorizeUserResponse(userText, ai, key, response) ==
  LET fallbackCategory == categorizeUserResponsePatternMatching(userText)
      rawCategory == IF response.kind = "content" THEN trim(response.content) ELSE ""
      category == parseCategory(rawCategory)
  IN  IF Len(trim(toLowerCase(userText))) < 2
      THEN [category |-> "24 hours later (No response)", fetches |-> 0]
      ELSE IF ~ai \/ ~key
      THEN [category |-> fallbackCategory, fetches |-> 0]
      ELSE IF response.kind \in {"fetch throws", "status not ok", "body not JSON",
                                 "no choices"}
      THEN [category |-> fallbackCategory, fetches |-> 1]
      ELSE IF category # "invalid"
      THEN [category |-> category, fetches |-> 1]
      ELSE [category |-> fallbackCategory, fetches |-> 1]

switchToConfirmVisitWorkflow_keepState(s) ==
  setTimeout([s EXCEPT !.selectedWorkflow = "confirm visit",
                       !.selectedVersion = "A"],
             MessageDelay, Callback("confirmVisitInitialMessage"))

switchToConfirmVisitWorkflow_clearLog(s) ==
  setTimeout([clearMessages(s) EXCEPT !.selectedWorkflow = "confirm visit",
                       !.selectedVersion = "A",
                       !.currentState = "confirm_visit_initial"],
             MessageDelay, Callback("confirmVisitInitialMessage"))

switchToConfirmVisitWorkflow(s) ==
  setTimeout([s EXCEPT !.selectedWorkflow = "confirm visit",
                       !.selectedVersion = "A",
                       !.currentState = "confirm_visit_initial"],
             MessageDelay, Callback("confirmVisitInitialMessage"))

-----------------------------------------------------------------------------
(* Option dispatch *)

handleAfterCancelResponse(s, option) ==
  IF option = "Yes"
  THEN setTimeout(s, MessageDelay, Callback("showDateTimePicker"))
  ELSE showTimePassingAnimation(s)

\* handleBetterTimeResponse opening the picker on every answer
handleBetterTimeResponse_alwaysPicker(s, option) == showDateTimePicker(s)

handleBetterTimeResponse(s, option) ==
  IF option = "Yes" THEN showDateTimePicker(s) ELSE showTimePassingAnimation(s)

\* handleResponseToCallQuestion leaving the follow-up flag set on 'Yes'
handleResponseToCallQuestion_keepsFlag(s, option) ==
  CASE option = "Yes" ->
         IF s.isAfter24HourFollowup
         THEN showDateTimePicker(s)
         ELSE setTimeout(s, MessageDelay, Callback("showCallingNotification"))
    [] option = "Call at a different time" -> showDateTimePicker(s)
    [] option = "No" ->
         IF s.isAfter24HourFollowup
         THEN showTimePassingAnimation(s)
         ELSE setTimeout([s EXCEPT !.currentState = "asking_better_time"],
                         MessageDelay, <<BotStep(BetterTimeText, YesNoOptions)>>)
    [] option = "No/No response" ->
         IF s.isAfter24HourFollowup THEN showTimePassingAnimation(s) ELSE s
    [] option \in {"No response", "24 hours later (No response)"} ->
         showTimePassingAnimation(s)
    [] option = "Do not contact" ->
         [addMessage(s, "bot", NiceDayText, <<>>) EXCEPT !.currentState = "ended"]
    [] option = "Unknown message" ->
         [addMessage(s, "bot", UnknownText, <<>>) EXCEPT !.currentState = "unknown"]
    [] OTHER -> s

\* handleResponseToCallQuestion asking for a better time on every 'No'
handleResponseToCallQuestion_alwaysAsks(s, option) ==
  CASE option = "Yes" ->
         IF s.isAfter24HourFollowup
         THEN showDateTimePicker([s EXCEPT !.isAfter24HourFollowup = FALSE])
         ELSE setTimeout(s, MessageDelay, Callback("showCallingNotification"))
    [] option = "Call at a different time" -> showDateTimePicker(s)
    [] option = "No" ->
         setTimeout([s EXCEPT !.currentState = "asking_better_time"],
                    MessageDelay, <<BotStep(BetterTimeText, YesNoOptions)>>)
    [] option = "No/No response" ->
         IF s.isAfter24HourFollowup THEN showTimePassingAnimation(s) ELSE s
    [] option \in {"No response", "24 hours later (No response)"} ->
         showTimePassingAnimation(s)
    [] option = "Do not contact" ->
         [addMessage(s, "bot", NiceDayText, <<>>) EXCEPT !.currentState = "ended"]
    [] option = "Unknown message" ->
         [addMessage(s, "bot", UnknownText, <<>>) EXCEPT !.currentState = "unknown"]
    [] OTHER -> s

\* handleResponseToCallQuestion taking 'Do not contact' for an unknown
\* message
handleResponseToCallQuestion_dncUnknown(s, option) ==
  IF option \in {"Do not contact", "Unknown message"}
  THEN [addMessage(s, "bot", UnknownText, <<>>) EXCEPT !.currentState = "unknown"]
  ELSE IF option = "No"
  THEN setTimeout([s EXCEPT !.currentState = "asking_better_time"],
                  MessageDelay, <<BotStep(BetterTimeText, YesNoOptions)>>)
  ELSE s

handleResponseToCallQuestion(s, option) ==
  CASE option = "Yes" ->
         IF s.isAfter24HourFollowup
         THEN showDateTimePicker([s EXCEPT !.isAfter24HourFollowup = FALSE])
         ELSE setTimeout(s, MessageDelay, Callback("showCallingNotification"))
    [] option = "Call at a different time" -> showDateTimePicker(s)
    [] option = "No" ->
         IF s.isAfter24HourFollowup
         THEN showTimePassingAnimation(s)
         ELSE setTimeout([s EXCEPT !.currentState = "asking_better_time"],
                         MessageDelay, <<BotStep(BetterTimeText, YesNoOptions)>>)
    [] option = "No/No response" ->
         IF s.isAfter24HourFollowup THEN showTimePassingAnimation(s) ELSE s
    [] option \in {"No response", "24 hours later (No response)"} ->
         showTimePassingAnimation(s)
    [] option = "Do not contact" ->
         [addMessage(s, "bot", NiceDayText, <<>>) EXCEPT !.currentState = "ended"]
    [] option = "Unknown message" ->
         [addMessage(s, "bot", UnknownText, <<>>) EXCEPT !.currentState = "unknown"]
    [] OTHER -> s

\* handleConfirmVisitResponse cancelling at once on 'Cancel Appointment'
handleConfirmVisitResponse_cancelsAtOnce(s, option) ==
  CASE s.currentState = "confirm_visit_waiting" ->
         ( CASE option = "Yes" ->
                  setTimeout([s EXCEPT !.currentState = "confirm_visit_confirmed"],
                             MessageDelay, <<BotStep(ConfirmVisitConfirmedText, <<>>)>>)
             [] option = "No" ->
                  setTimeout([s EXCEPT !.currentState = "confirm_visit_reschedule_question"],
                             MessageDelay, Callback("confirmVisitRescheduleQuestion"))
             [] option = "Cancel Appointment" ->
                  setTimeout([s EXCEPT !.currentState = "confirm_visit_cancelled"],
                             MessageDelay, <<BotStep(ConfirmVisitCancelledText, <<>>)>>)
             [] option \in {"Do not contact", "DNC"} ->
                  setTimeout([s EXCEPT !.currentState = "confirm_visit_dnc"],
                             MessageDelay, <<BotStep(ConfirmVisitDncText, <<>>)>>)
             [] option = "Unknown message" ->
                  setTimeout([s EXCEPT !.currentState = "unknown"],
                             MessageDelay, <<BotStep(UnknownText, <<>>)>>)
             [] OTHER -> s )
    [] s.currentState = "confirm_visit_reschedule_waiting" ->
         ( CASE option = "Yes" ->
                  setTimeout([s EXCEPT !.currentState = "confirm_visit_reschedule_selecting_time"],
                             MessageDelay, Callback("showConfirmVisitRescheduleDateTimePicker"))
             [] option = "No" ->
                  setTimeout([s EXCEPT !.currentState = "confirm_visit_cancelled"],
                             MessageDelay, <<BotStep(ConfirmVisitCancelledText, <<>>)>>)
             [] option = "Unknown message" ->
                  setTimeout([s EXCEPT !.currentState = "unknown"],
                             MessageDelay, <<BotStep(UnknownText, <<>>)>>)
             [] OTHER -> s )
    [] OTHER -> s

\* handleConfirmVisitResponse cancelling on every answer to the reschedule
\* question
handleConfirmVisitResponse_alwaysCancels(s, option) ==
  IF s.currentState = "confirm_visit_waiting" /\ option = "No"
  THEN setTimeout([s EXCEPT !.currentState = "confirm_visit_reschedule_question"],
                  MessageDelay, Callback("confirmVisitRescheduleQuestion"))
  ELSE IF s.currentState = "confirm_visit_reschedule_waiting"
  THEN setTimeout([s EXCEPT !.currentState = "confirm_visit_cancelled"],
                  MessageDelay, <<BotStep(ConfirmVisitCancelledText, <<>>)>>)
  ELSE s

handleConfirmVisitResponse(s, option) ==
  CASE s.currentState = "confirm_visit_waiting" ->
         ( CASE option = "Yes" ->
                  setTimeout([s EXCEPT !.currentState = "confirm_visit_confirmed"],
                             MessageDelay, <<BotStep(ConfirmVisitConfirmedText, <<>>)>>)
             [] option \in {"No", "Cancel Appointment"} ->
                  setTimeout([s EXCEPT !.currentState = "confirm_visit_reschedule_question"],
                             MessageDelay, Callback("confirmVisitRescheduleQuestion"))
             [] option \in {"Do not contact", "DNC"} ->
                  setTimeout([s EXCEPT !.currentState = "confirm_visit_dnc"],
                             MessageDelay, <<BotStep(ConfirmVisitDncText, <<>>)>>)
             [] option = "Unknown message" ->
                  setTimeout([s EXCEPT !.currentState = "unknown"],
                             MessageDelay, <<BotStep(UnknownText, <<>>)>>)
             [] OTHER -> s )
    [] s.currentState = "confirm_visit_reschedule_waiting" ->
         ( CASE option = "Yes" ->
                  setTimeout([s EXCEPT !.currentState = "confirm_visit_reschedule_selecting_time"],
                             MessageDelay, Callback("showConfirmVisitRescheduleDateTimePicker"))
             [] option = "No" ->
                  setTimeout([s EXCEPT !.currentState = "confirm_visit_cancelled"],
                             MessageDelay, <<BotStep(ConfirmVisitCancelledText, <<>>)>>)
             [] option = "Unknown message" ->
                  setTimeout([s EXCEPT !.currentState = "unknown"],
                             MessageDelay, <<BotStep(UnknownText, <<>>)>>)
             [] OTHER -> s )
    [] OTHER -> s

\* the option set the current state offers (the options of the question that
\* led to it), empty where no reply is expected
OfferedOptions(s) ==
  CASE s.currentState = "waiting_for_response" -> CallQuestionOptions
    [] s.currentState \in {"followup_next_day", "asking_better_time",
                           "asking_after_cancel",
                           "confirm_visit_reschedule_waiting"} -> YesNoOptions
    [] s.currentState = "confirm_visit_waiting" -> ConfirmVisitOptions
    [] OTHER -> <<>>

Range(seq) == {seq[i] : i \in 1..Len(seq)}

\* handleOptionSelect with the dispatch before the user's message
handleOptionSelect_replyFirst(s, option) ==
  LET s1 == IF s.selectedWorkflow = "confirm visit"
            THEN handleConfirmVisitResponse(s, option)
            ELSE CASE s.currentState \in {"waiting_for_response", "followup_next_day"} ->
                        handleResponseToCallQuestion(s, option)
                   [] s.currentState = "asking_better_time" ->
                        handleBetterTimeResponse(s, option)
                   [] s.currentState = "asking_after_cancel" ->
                        handleAfterCancelResponse(s, option)
                   [] OTHER -> s
  IN  addMessage(s1, "user", option, <<>>)

handleOptionSelect(s, option) ==
  LET s1 == addMessage(s, "user", option, <<>>)
  IN  IF s1.selectedWorkflow = "confirm visit"
      THEN handleConfirmVisitResponse(s1, option)
      ELSE CASE s1.currentState \in {"waiting_for_response", "followup_next_day"} ->
                  handleResponseToCallQuestion(s1, option)
             [] s1.currentState = "asking_better_time" ->
                  handleBetterTimeResponse(s1, option)
             [] s1.currentState = "asking_after_cancel" ->
                  handleAfterCancelResponse(s1, option)
             [] OTHER -> s1

-----------------------------------------------------------------------------
(* Date/time picker *)

\* toLocaleDateString('en-US', {weekday:'long', year:'numeric', month:'long', day:'numeric'})
formattedDate(date) ==
  CASE date = "2026-11-04" -> "Wednesday, November 4, 2026"
    [] date = "2026-11-05" -> "Thursday, November 5, 2026"
    [] OTHER -> "Invalid Date"

NumberText(n) ==
  CASE n = 1 -> "1" [] n = 2 -> "2" [] n = 3 -> "3" [] n = 4 -> "4"
    [] n = 5 -> "5" [] n = 6 -> "6" [] n = 7 -> "7" [] n = 8 -> "8"
    [] n = 9 -> "9" [] n = 10 -> "10" [] n = 11 -> "11" [] n = 12 -> "12"
    [] OTHER -> "0"

\* toLocaleTimeString('en-US', {hour:'numeric', minute:'2-digit', hour12:true})
formattedTime(hours24, minutes) ==
  NumberText(IF hours24 % 12 = 0 THEN 12 ELSE hours24 % 12)
    \o ":" \o minutes \o (IF hours24 < 12 THEN " AM" ELSE " PM")

RescheduledText(dt) ==
  "Your appointment has been rescheduled for " \o formattedDate(dt[1]) \o " at "
    \o formattedTime(dt[2], dt[3]) \o ". We'll see you then!"

CallAgainText(dt) ==
  "We will call you again on " \o formattedDate(dt[1]) \o " at "
    \o formattedTime(dt[2], dt[3]) \o "."

\* 12-hour to 24-hour without the case of 12 AM
hours24Of_noMidnight(hour, ampm) ==
  IF ampm = "PM" /\ hour # 12 THEN hour + 12 ELSE hour

\* 12-hour to 24-hour
hours24Of(hour, ampm) ==
  IF ampm = "PM" /\ hour # 12 THEN hour + 12
  ELSE IF ampm = "AM" /\ hour = 12 THEN 0
  ELSE hour

\* the validator without its upper bound
dateTimeRejected_noUpperBound(date, hour, minute, ampm) ==
  \/ date = ""
  \/ hours24Of(hour, ampm) < 9

\* TRUE when handleDateTimeConfirm returns early (after its alert)
dateTimeRejected(date, hour, minute, ampm) ==
  \/ date = ""
  \/ hours24Of(hour, ampm) < 9
  \/ hours24Of(hour, ampm) >= 17
  \/ (hours24Of(hour, ampm) = 17 /\ minute # "00")

\* handleDateTimeConfirm hiding the picker when it rejects
handleDateTimeConfirm_closesOnReject(s, date, hour, minute, ampm) ==
  IF dateTimeRejected(date, hour, minute, ampm)
  THEN [s EXCEPT !.dateTimeModal = FALSE]
  ELSE
  LET dt == <<date, hours24Of(hour, ampm), minute>>
      s1 == [s EXCEPT !.scheduledDateTime = dt, !.dateTimeModal = FALSE]
  IN  IF s1.currentState = "confirm_visit_reschedule_selecting_time"
      THEN [addMessage(s1, "bot", RescheduledText(dt), <<>>)
              EXCEPT !.currentState = "confirm_visit_confirmed"]
      ELSE [addMessage(s1, "bot", CallAgainText(dt), <<>>)
              EXCEPT !.currentState = "time_scheduled"]

handleDateTimeConfirm(s, date, hour, minute, ampm) ==
  IF dateTimeRejected(date, hour, minute, ampm) THEN s
  ELSE
  LET dt == <<date, hours24Of(hour, ampm), minute>>
      s1 == [s EXCEPT !.scheduledDateTime = dt, !.dateTimeModal = FALSE]
  IN  IF s1.currentState = "confirm_visit_reschedule_selecting_time"
      THEN [addMessage(s1, "bot", RescheduledText(dt), <<>>)
              EXCEPT !.currentState = "confirm_visit_confirmed"]
      ELSE [addMessage(s1, "bot", CallAgainText(dt), <<>>)
              EXCEPT !.currentState = "time_scheduled"]

\* handleDateTimeCancel without its confirm-visit branch
handleDateTimeCancel_alwaysGeneric(s) ==
  setTimeout([s EXCEPT !.dateTimeModal = FALSE,
                       !.currentState = "asking_after_cancel"],
             MessageDelay, <<BotStep(AfterCancelText, YesNoOptions)>>)

\* handleDateTimeCancel without its question
handleDateTimeCancel_noQuestion(s) ==
  LET s1 == [s EXCEPT !.dateTimeModal = FALSE]
  IN  IF s1.currentState = "confirm_visit_reschedule_selecting_time"
      THEN [s1 EXCEPT !.currentState = "confirm_visit_reschedule_waiting"]
      ELSE [s1 EXCEPT !.currentState = "asking_after_cancel"]

handleDateTimeCancel(s) ==
  LET s1 == [s EXCEPT !.dateTimeModal = FALSE]
  IN  IF s1.currentState = "confirm_visit_reschedule_selecting_time"
      THEN setTimeout([s1 EXCEPT !.currentState = "confirm_visit_reschedule_waiting"],
                      MessageDelay, <<BotStep(ConfirmVisitRescheduleText, YesNoOptions)>>)
      ELSE setTimeout([s1 EXCEPT !.currentState = "asking_after_cancel"],
                      MessageDelay, <<BotStep(AfterCancelText, YesNoOptions)>>)

\* handleHourChange: hours 9, 10, 11 are AM, hours 12, 1, 2, 3, 4, 5 are PM
handleHourChange(hour) == IF hour >= 9 /\ hour <= 11 THEN "AM" ELSE "PM"

-----------------------------------------------------------------------------
(* Calls *)

handleCallAccept(s) ==
  showCallScreen([hideCallingNotification(s) EXCEPT !.currentState = "call_accepted"])

handleCallDecline(s) ==
  setTimeout([hideCallingNotification(s) EXCEPT !.currentState = "call_declined"],
             MessageDelay, Callback("callDeclinedMessage"))

handleEndCall(s) == addMessage(hideCallScreen(s), "bot", EndCallText, <<>>)

-----------------------------------------------------------------------------
(* Free text *)

\* handleTextInput without the test for an empty text
handleTextInput_noEmptyTest(s, value, key) ==
  LET userText == Trimmed[value]
      s1 == addMessage(s, "user", userText, <<>>)
      category == categorizeUserResponseSync(userText, s.aiEnabled, key)
  IN  IF UpperCased[userText] = "STOP"
      THEN addMessage([s EXCEPT !.userHasStopped = TRUE], "user", userText, <<>>)
      ELSE IF s.selectedWorkflow = "webform" /\ ConfirmVisitIntent[userText]
      THEN switchToConfirmVisitWorkflow(s1)
      ELSE IF category = "fetch"
      THEN [s1 EXCEPT !.inFlight = Append(@, [text |-> userText, stale |-> FALSE])]
      ELSE handleOptionSelect(s1, category)

\* handleTextInput switching to confirm visit from every workflow
handleTextInput_switchesAlways(s, value, key) ==
  LET userText == Trimmed[value]
      s1 == addMessage(s, "user", userText, <<>>)
      category == categorizeUserResponseSync(userText, s.aiEnabled, key)
  IN  IF userText = "" THEN s
      ELSE IF UpperCased[userText] = "STOP"
      THEN addMessage([s EXCEPT !.userHasStopped = TRUE], "user", userText, <<>>)
      ELSE IF ConfirmVisitIntent[userText]
      THEN switchToConfirmVisitWorkflow(s1)
      ELSE IF category = "fetch"
      THEN [s1 EXCEPT !.inFlight = Append(@, [text |-> userText, stale |-> FALSE])]
      ELSE handleOptionSelect(s1, category)

handleTextInput_noStop(s, value, key) ==
  LET userText == Trimmed[value]
      s1 == addMessage(s, "user", userText, <<>>)
      category == categorizeUserResponseSync(userText, s.aiEnabled, key)
  IN  IF userText = "" THEN s
      ELSE IF s.selectedWorkflow = "webform" /\ ConfirmVisitIntent[userText]
      THEN switchToConfirmVisitWorkflow(s1)
      ELSE IF category = "fetch"
      THEN [s1 EXCEPT !.inFlight = Append(@, [text |-> userText, stale |-> FALSE])]
      ELSE handleOptionSelect(s1, category)

handleTextInput(s, value, key) ==
  LET userText == Trimmed[value]
      s1 == addMessage(s, "user", userText, <<>>)
      category == categorizeUserResponseSync(userText, s.aiEnabled, key)
  IN  IF userText = "" THEN s
      ELSE IF UpperCased[userText] = "STOP"
      THEN addMessage([s EXCEPT !.userHasStopped = TRUE], "user", userText, <<>>)
      ELSE IF s.selectedWorkflow = "webform" /\ ConfirmVisitIntent[userText]
      THEN switchToConfirmVisitWorkflow(s1)
      ELSE IF category = "fetch"
      THEN [s1 EXCEPT !.inFlight = Append(@, [text |-> userText, stale |-> FALSE])]
      ELSE handleOptionSelect(s1, category)

-----------------------------------------------------------------------------
(* Clicks on the state boxes of the dataflow diagram *)

hidePhoneOverlays(s) ==
  clearInputArea([hideCallScreen(hideCallingNotification(clearMessages(s)))
                    EXCEPT !.dateTimeModal = FALSE])

ScheduledOrPickerScript(question) ==
  <<BotStep(question, <<>>), UserStep("Call at a different time"),
    Step("scheduledMessageOrPicker", "", <<>>)>>

BetterTimeScript(question) ==
  <<BotStep(question, <<>>), UserStep("No"), BotStep(BetterTimeText, YesNoOptions)>>

UnknownScript(question) ==
  <<BotStep(question, <<>>), UserStep("Unknown message"), BotStep(UnknownText, <<>>)>>

\* the switch of updatePhoneUIForState and of updatePhoneUIForProductQuestion,
\* which differ in the two texts only; s already holds the first message
phoneUIScript(s, state, question, followup) ==
  CASE state = "initial" -> s
    [] state = "calling" -> showCallingNotification(s)
    [] state = "call_accepted" -> setTimeout(s, MessageDelay, Callback("showCallScreen"))
    [] state \in {"call_declined", "asking_if_wants_call", "waiting_for_response"} ->
         setTimeout(s, MessageDelay, <<BotStep(question, CallQuestionOptions)>>)
    [] state = "followup_next_day" ->
         setTimeout(s, MessageDelay, <<BotStep("", YesNoOptions)>>)
    [] state \in {"scheduling_time", "time_scheduled"} ->
         setTimeout(s, MessageDelay, ScheduledOrPickerScript(question))
    [] state \in {"asking_better_time", "asking_after_cancel"} ->
         setTimeout(s, MessageDelay, BetterTimeScript(question))
    [] state = "unknown" -> setTimeout(s, MessageDelay, UnknownScript(question))
    [] state = "ended" -> setTimeout(s, MessageDelay, <<BotStep(NiceDayText, <<>>)>>)
    [] OTHER -> s

updatePhoneUIForProductQuestion(s, state) ==
  LET s1 == hidePhoneOverlays(s)
      s2 == IF state = "followup_next_day"
            THEN addMessage(s1, "bot", ProductFollowupText, <<>>)
            ELSE IF state \in GenericStates
            THEN addMessage(s1, "bot", ProductReceivedText, <<>>)
            ELSE s1
  IN  phoneUIScript(s2, state, ProductQuestionText, ProductFollowupText)

ConfirmVisitScript(state) ==
  CASE state \in {"confirm_visit_initial", "confirm_visit_waiting"} ->
         <<BotStep(ConfirmVisitPromptText, ConfirmVisitOptions)>>
    [] state = "confirm_visit_confirmed" ->
         <<BotStep(ConfirmVisitPromptText, <<>>), UserStep("Yes"),
           BotStep(ConfirmVisitConfirmedText, <<>>)>>
    [] state \in {"confirm_visit_reschedule_question", "confirm_visit_reschedule_waiting"} ->
         <<BotStep(ConfirmVisitPromptText, <<>>), UserStep("No"),
           BotStep(ConfirmVisitRescheduleText, YesNoOptions)>>
    [] state = "confirm_visit_reschedule_selecting_time" ->
         <<BotStep(ConfirmVisitPromptText, <<>>), UserStep("No"),
           BotStep(ConfirmVisitRescheduleText, YesNoOptions), UserStep("Yes"),
           Step("showConfirmVisitRescheduleDateTimePicker", "", <<>>)>>
    [] state = "confirm_visit_cancelled" ->
         <<BotStep(ConfirmVisitPromptText, <<>>), UserStep("Cancel Appointment"),
           BotStep(ConfirmVisitRescheduleText, <<>>), UserStep("No"),
           BotStep(ConfirmVisitCancelledText, <<>>)>>
    [] state = "confirm_visit_dnc" ->
         <<BotStep(ConfirmVisitPromptText, <<>>), UserStep("DNC"),
           BotStep(ConfirmVisitDncText, <<>>)>>
    [] state = "unknown" ->
         <<BotStep(ConfirmVisitPromptText, <<>>), UserStep("Unknown message"),
           BotStep(UnknownText, <<>>)>>
    [] OTHER -> <<>>

updatePhoneUIForConfirmVisit(s, state) ==
  IF ConfirmVisitScript(state) = <<>> THEN hidePhoneOverlays(s)
  ELSE setTimeout(hidePhoneOverlays(s), MessageDelay, ConfirmVisitScript(state))

updatePhoneUIForState(s, state) ==
  IF s.selectedWorkflow = "confirm visit" THEN updatePhoneUIForConfirmVisit(s, state)
  ELSE IF s.selectedWorkflow = "product question"
  THEN updatePhoneUIForProductQuestion(s, state)
  ELSE
  LET s1 == hidePhoneOverlays(s)
      s2 == IF state = "followup_next_day"
            THEN addMessage(s1, "bot", WebformFollowupText, <<>>)
            ELSE IF state \in GenericStates /\ s1.selectedVersion = "A"
            THEN addMessage(s1, "bot", WebformReceivedText, <<>>)
            ELSE s1
  IN  phoneUIScript(s2, state, WebformQuestionText, WebformFollowupText)

\* diagramToConversationState: the states a box of the diagram stands for
WebformDiagramStates ==
  {"initial", "calling", "call_accepted", "call_declined", "waiting_for_response",
   "scheduling_time", "asking_better_time", "followup_next_day", "unknown", "ended"}

ConfirmVisitDiagramStates ==
  {"confirm_visit_initial", "confirm_visit_confirmed",
   "confirm_visit_reschedule_question", "confirm_visit_reschedule_waiting",
   "confirm_visit_cancelled", "confirm_visit_dnc", "unknown"}

DiagramStates(workflow) ==
  CASE workflow = "confirm visit" -> ConfirmVisitDiagramStates
    [] workflow \in {"webform", "product question"} -> WebformDiagramStates
    [] OTHER -> {}

\* the click listener the rendered diagram carries
stateGroupClick(s, newState) ==
  IF s.selectedWorkflow = "confirm visit"
  THEN updatePhoneUIForConfirmVisit([s EXCEPT !.currentState = newState], newState)
  ELSE IF s.selectedWorkflow = "product question"
  THEN updatePhoneUIForProductQuestion(
         [s EXCEPT !.currentState = newState,
                   !.isAfter24HourFollowup = (newState = "followup_next_day")],
         newState)
  ELSE updatePhoneUIForState(
         [s EXCEPT !.currentState = newState,
                   !.isAfter24HourFollowup = (newState = "followup_next_day")],
         newState)

-----------------------------------------------------------------------------
(* Dialogue editor *)

switchTab(s, tab) ==
  IF tab = "dialogue"
  THEN renderDialogueEditor([s EXCEPT !.activeTab = tab])
  ELSE [s EXCEPT !.activeTab = tab]

saveDialogueMessage_deletes(s, i, value) ==
  IF i > s.editorItems \/ i > Len(s.messages) THEN s
  ELSE setTimeout(renderMessages([s EXCEPT !.messages =
                                      SubSeq(@, 1, i - 1) \o SubSeq(@, i + 1, Len(@))]),
                  MessageDelay, Callback("switchTabChat"))

\* Save on the i-th entry the editor shows, with `value` in its textarea
saveDialogueMessage(s, i, value) ==
  IF i > s.editorItems \/ i > Len(s.messages) THEN s
  ELSE setTimeout(renderMessages([s EXCEPT !.messages[i].text = trim(value)]),
                  MessageDelay, Callback("switchTabChat"))

-----------------------------------------------------------------------------
(* Workflow, version and AI buttons *)

handleWorkflowSelect(s, workflow) ==
  resetConversation([s EXCEPT !.selectedWorkflow = workflow, !.selectedVersion = "A"])

handleVersionSelect(s, version) ==
  IF s.selectedVersion # version
  THEN resetConversation([s EXCEPT !.selectedVersion = version])
  ELSE IF Len(s.messages) > 0
          /\ s.messages[Len(s.messages)].options # <<>>
          /\ s.messages[Len(s.messages)].sender = "bot"
  THEN renderOptions(s, s.messages[Len(s.messages)].options)
  ELSE s

handleAIToggle(s) == resetConversation([s EXCEPT !.aiEnabled = ~s.aiEnabled])

-----------------------------------------------------------------------------
(* setTimeout callbacks *)

\* the 24 hours pass with the follow-up question carrying the options
timePassed_optionsAtOnce(s) ==
  LET s1 == addMessage(s, "bot", ADT_INTRO_MESSAGE, <<>>)
      s2 == addMessage(s1, "bot",
                       IF s.selectedWorkflow = "product question"
                       THEN ProductFollowupText ELSE WebformFollowupText,
                       YesNoOptions)
  IN  [s2 EXCEPT !.currentState = "followup_next_day",
                 !.isAfter24HourFollowup = TRUE]

\* the callback that showTimePassingAnimation runs 500 ms after its
\* progress bar is full
timePassed(s) ==
  LET s1 == addMessage(s, "bot", ADT_INTRO_MESSAGE, <<>>)
      s2 == addMessage(s1, "bot",
                       IF s.selectedWorkflow = "product question"
                       THEN ProductFollowupText ELSE WebformFollowupText,
                       <<>>)
  IN  setTimeout([s2 EXCEPT !.currentState = "followup_next_day",
                            !.isAfter24HourFollowup = TRUE],
                 MessageDelay, <<BotStep("", YesNoOptions)>>)

runStep(s, step) ==
  CASE step.op = "addBotMessage" -> addMessage(s, "bot", step.text, step.options)
    [] step.op = "addUserMessage" -> addMessage(s, "user", step.text, <<>>)
    [] step.op = "startConversation" -> startConversation(s)
    [] step.op = "showCallingNotification" -> showCallingNotification(s)
    [] step.op = "showCallScreen" -> showCallScreen(s)
    [] step.op = "showDateTimePicker" -> showDateTimePicker(s)
    [] step.op = "showConfirmVisitRescheduleDateTimePicker" ->
         showConfirmVisitRescheduleDateTimePicker(s)
    [] step.op = "callDeclinedMessage" ->
         [addMessage(s, "bot",
                     IF s.selectedWorkflow = "product question"
                     THEN ProductQuestionText ELSE WebformQuestionText,
                     CallQuestionOptions)
            EXCEPT !.currentState = "waiting_for_response"]
    [] step.op = "confirmVisitInitialMessage" ->
         [addMessage(s, "bot", ConfirmVisitPromptText, ConfirmVisitOptions)
            EXCEPT !.currentState = "confirm_visit_waiting"]
    [] step.op = "confirmVisitRescheduleQuestion" ->
         [addMessage(s, "bot", ConfirmVisitRescheduleText, YesNoOptions)
            EXCEPT !.currentState = "confirm_visit_reschedule_waiting"]
    [] step.op = "animationComplete" ->
         setTimeout(s, MessageDelay, Callback("timePassed"))
    [] step.op = "timePassed" -> timePassed(s)
    [] step.op = "scheduledMessageOrPicker" ->
         IF s.scheduledDateTime # <<>>
         THEN addMessage(s, "bot", CallAgainText(s.scheduledDateTime), <<>>)
         ELSE showDateTimePicker(s)
    [] step.op = "switchTabChat" -> switchTab(s, "chat")
    [] OTHER -> s

RemoveAt(seq, i) == SubSeq(seq, 1, i - 1) \o SubSeq(seq, i + 1, Len(seq))

\* the entry that runs next: the earliest scheduled among those that are due
DueTimer(s) == CHOOSE i \in 1..Len(s.timers) :
                 /\ s.timers[i].rem = 0
                 /\ \A j \in 1..(i - 1) : s.timers[j].rem # 0

\* run the callback, then its nested setTimeout with the remaining steps
fireTimer(s) ==
  LET i == DueTimer(s)
      steps == s.timers[i].steps
      s1 == runStep([s EXCEPT !.timers = RemoveAt(@, i)], steps[1])
      s2 == IF Len(steps) > 1 THEN setTimeout(s1, MessageDelay, Tail(steps)) ELSE s1
  IN  inherited(s2, Len(s.timers) - 1, s.timers[i].stale)

\* the result of a classification applied while its text stays in flight
classificationReturns_keepsInFlight(s, i, output) ==
  inherited(handleOptionSelect(s,
                               IF output = "error"
                               THEN PatternCategory[s.inFlight[i].text]
                               ELSE output),
            Len(s.timers), s.inFlight[i].stale)

\* the classifier call of the i-th text in flight returns; `output` is the
\* category parsed from its answer, or "error" for an answer that makes
\* categorizeUserResponse fall back to pattern matching
classificationReturns(s, i, output) ==
  inherited(handleOptionSelect([s EXCEPT !.inFlight = RemoveAt(@, i)],
                               IF output = "error"
                               THEN PatternCategory[s.inFlight[i].text]
                               ELSE output),
            Len(s.timers), s.inFlight[i].stale)

-----------------------------------------------------------------------------
(* Inputs *)

Workflows == {"webform", "confirm visit", "product question"}
Versions == {"A", "B"}
EditedTexts == {"Edited text"}
PickerDates == {"", "2026-11-04"}
PickerHours == {9, 5}
PickerMinutes == {"00"}
ClassifierOutputs == ResponseCategory \cup {"error"}

-----------------------------------------------------------------------------
(* Specification *)

\* the step taken last: the handler, its input, and whether it was the late
\* effect of a callback or request that a reset had left pending
Event(name, arg) == [name |-> name, arg |-> arg, stale |-> FALSE]
Late(name, arg, stale) == [name |-> name, arg |-> arg, stale |-> stale]

Commit(session, event, left) ==
  \E s \in {session} :
  /\ currentState' = s.currentState
  /\ scheduledDateTime' = s.scheduledDateTime
  /\ messages' = s.messages
  /\ activeTab' = s.activeTab
  /\ isAfter24HourFollowup' = s.isAfter24HourFollowup
  /\ userHasStopped' = s.userHasStopped
  /\ selectedWorkflow' = s.selectedWorkflow
  /\ selectedVersion' = s.selectedVersion
  /\ aiEnabled' = s.aiEnabled
  /\ callingOverlay' = s.callingOverlay
  /\ callScreenOverlay' = s.callScreenOverlay
  /\ dateTimeModal' = s.dateTimeModal
  /\ inputArea' = s.inputArea
  /\ editorItems' = s.editorItems
  /\ timers' = s.timers
  /\ inFlight' = s.inFlight
  /\ lastEvent' = event
  /\ eventsLeft' = left
  /\ call' = call

UserEvent(kind, s, name, arg) ==
  /\ eventsLeft.any > 0
  /\ eventsLeft[kind] > 0
  /\ Commit(s, Event(name, arg),
            [eventsLeft EXCEPT !.any = @ - 1, ![kind] = @ - 1])

\* The page once it has settled after loading and after any choice of
\* workflow, version and AI toggle: a fresh session whose only pending
\* callbacks are those of its own startConversation; `events` user events
\* are to come.
Start(events) ==
  /\ \E workflow \in Workflows, version \in Versions, ai \in BOOLEAN :
       LET blank == [currentState |-> "initial", scheduledDateTime |-> <<>>,
                     messages |-> <<>>, activeTab |-> "chat",
                     isAfter24HourFollowup |-> FALSE, userHasStopped |-> FALSE,
                     selectedWorkflow |-> workflow, selectedVersion |-> version,
                     aiEnabled |-> ai, callingOverlay |-> FALSE,
                     callScreenOverlay |-> FALSE, dateTimeModal |-> FALSE,
                     inputArea |-> NoInput, editorItems |-> 0,
                     timers |-> <<>>, inFlight |-> <<>>]
           s == startConversation(blank)
       IN  /\ currentState = s.currentState
           /\ scheduledDateTime = s.scheduledDateTime
           /\ messages = s.messages
           /\ activeTab = s.activeTab
           /\ isAfter24HourFollowup = s.isAfter24HourFollowup
           /\ userHasStopped = s.userHasStopped
           /\ selectedWorkflow = s.selectedWorkflow
           /\ selectedVersion = s.selectedVersion
           /\ aiEnabled = s.aiEnabled
           /\ callingOverlay = s.callingOverlay
           /\ callScreenOverlay = s.callScreenOverlay
           /\ dateTimeModal = s.dateTimeModal
           /\ inputArea = s.inputArea
           /\ editorItems = s.editorItems
           /\ timers = s.timers
           /\ inFlight = s.inFlight
  /\ apiKey = "unread"
  /\ lastEvent = Event("startConversation", "")
  /\ eventsLeft = [any |-> events, reply |-> events, reset |-> MaxResets,
                   click |-> MaxClicks, edit |-> MaxEdits]
  /\ call = <<>>

Init == Start(MaxEvents)

BackButton ==
  /\ UserEvent("reset", resetConversation(Session), "resetConversation", "")
  /\ UNCHANGED apiKey

WorkflowButton ==
  /\ \E workflow \in Workflows :
       UserEvent("reset", handleWorkflowSelect(Session, workflow),
                 "handleWorkflowSelect", workflow)
  /\ UNCHANGED apiKey

VersionButton ==
  /\ \E version \in Versions :
       UserEvent("reset", handleVersionSelect(Session, version),
                 "handleVersionSelect", version)
  /\ UNCHANGED apiKey

AIToggleButton ==
  /\ UserEvent("reset", handleAIToggle(Session), "handleAIToggle", "")
  /\ UNCHANGED apiKey

AcceptButton ==
  /\ callingOverlay
  /\ UserEvent("reply", handleCallAccept(Session), "handleCallAccept", "")
  /\ UNCHANGED apiKey

DeclineButton ==
  /\ callingOverlay
  /\ UserEvent("reply", handleCallDecline(Session), "handleCallDecline", "")
  /\ UNCHANGED apiKey

EndCallButton ==
  /\ callScreenOverlay
  /\ UserEvent("reply", handleEndCall(Session), "handleEndCall", "")
  /\ UNCHANGED apiKey

OptionButton ==
  /\ activeTab = "chat"
  /\ inputArea.kind = "buttons"
  /\ \E k \in 1..Len(inputArea.options) :
       UserEvent("reply", handleOptionSelect(Session, inputArea.options[k]),
                 "handleOptionSelect", inputArea.options[k])
  /\ UNCHANGED apiKey

\* TRUE when categorizeUserResponse gets as far as reading the API key
ReadsApiKey(s, value) ==
  LET userText == Trimmed[value]
  IN  /\ userText # ""
      /\ UpperCased[userText] # "STOP"
      /\ ~(s.selectedWorkflow = "webform" /\ ConfirmVisitIntent[userText])
      /\ NormalizedLength[userText] >= 2
      /\ s.aiEnabled

SendText ==
  /\ activeTab = "chat"
  /\ inputArea.kind = "text"
  /\ \E value \in Texts : \E key \in {"set", "unset"} :
       /\ IF ReadsApiKey(Session, value)
          THEN (apiKey = "unread" \/ apiKey = key) /\ apiKey' = key
          ELSE key = "set" /\ UNCHANGED apiKey
       /\ UserEvent("reply", handleTextInput(Session, value, key = "set"),
                    "handleTextInput", value)

ConfirmDateTimeButton ==
  /\ dateTimeModal
  /\ \E date \in PickerDates, hour \in PickerHours, minute \in PickerMinutes :
       UserEvent("reply",
                 handleDateTimeConfirm(Session, date, hour, minute, handleHourChange(hour)),
                 "handleDateTimeConfirm",
                 date \o "T" \o NumberText(hour) \o ":" \o minute \o handleHourChange(hour))
  /\ UNCHANGED apiKey

CancelDateTimeButton ==
  /\ dateTimeModal
  /\ UserEvent("reply", handleDateTimeCancel(Session), "handleDateTimeCancel", "")
  /\ UNCHANGED apiKey

StateBoxClick ==
  /\ \E newState \in DiagramStates(selectedWorkflow) :
       UserEvent("click", stateGroupClick(Session, newState), "stateGroupClick", newState)
  /\ UNCHANGED apiKey

TabButton ==
  /\ \E tab \in {"chat", "dialogue"} :
       UserEvent("edit", switchTab(Session, tab), "switchTab", tab)
  /\ UNCHANGED apiKey

SaveButton ==
  /\ activeTab = "dialogue"
  /\ \E i \in 1..editorItems : \E value \in EditedTexts :
       UserEvent("edit", saveDialogueMessage(Session, i, value),
                 "saveDialogueMessage", value)
  /\ UNCHANGED apiKey

TimerFires ==
  /\ \E i \in 1..Len(timers) : timers[i].rem = 0
  /\ Commit(fireTimer(Session),
            Late("timer", timers[DueTimer(Session)].steps[1].op,
                 timers[DueTimer(Session)].stale),
            eventsLeft)
  /\ UNCHANGED apiKey

ClassifierReturns ==
  /\ \E i \in 1..Len(inFlight) : \E output \in ClassifierOutputs :
       Commit(classificationReturns(Session, i, output),
              Late("classified",
                   IF output = "error" THEN PatternCategory[inFlight[i].text]
                   ELSE output,
                   inFlight[i].stale),
              eventsLeft)
  /\ UNCHANGED apiKey

\* 500 ms pass
Tick ==
  /\ timers # <<>>
  /\ \A i \in 1..Len(timers) : timers[i].rem > 0
  /\ Commit([Session EXCEPT !.timers =
               [i \in 1..Len(timers) |-> [timers[i] EXCEPT !.rem = @ - 1]]],
            Event("tick", ""), eventsLeft)
  /\ UNCHANGED apiKey

Next ==
  \/ BackButton
  \/ WorkflowButton
  \/ VersionButton
  \/ AIToggleButton
  \/ AcceptButton
  \/ DeclineButton
  \/ EndCallButton
  \/ OptionButton
  \/ SendText
  \/ ConfirmDateTimeButton
  \/ CancelDateTimeButton
  \/ StateBoxClick
  \/ TabButton
  \/ SaveButton
  \/ TimerFires
  \/ ClassifierReturns
  \/ Tick

Spec == Init /\ [][Next]_vars

TypeOK ==
  /\ currentState \in ConversationState
  /\ apiKey \in {"unread", "set", "unset"}

-----------------------------------------------------------------------------
(* The date/time picker on its own: handleDateTimeConfirm applied to every *)
(* value the four fields can hold                                          *)

\* confirms of the picker in one run
MaxConfirms == 2

\* the session once every pending callback has run, the earliest first
RECURSIVE afterTimers(_)
afterTimers(s) ==
  IF s.timers = <<>> THEN s
  ELSE LET wait == CHOOSE r \in {s.timers[i].rem : i \in 1..Len(s.timers)} :
                     \A i \in 1..Len(s.timers) : r <= s.timers[i].rem
       IN  afterTimers(fireTimer([s EXCEPT !.timers =
             [i \in 1..Len(s.timers) |-> [s.timers[i] EXCEPT !.rem = @ - wait]]]))

\* the page after loading with the given selections
newSession(workflow, version, ai) ==
  afterTimers(startConversation(
    [currentState |-> "initial", scheduledDateTime |-> <<>>,
     messages |-> <<>>, activeTab |-> "chat",
     isAfter24HourFollowup |-> FALSE, userHasStopped |-> FALSE,
     selectedWorkflow |-> workflow, selectedVersion |-> version,
     aiEnabled |-> ai, callingOverlay |-> FALSE,
     callScreenOverlay |-> FALSE, dateTimeModal |-> FALSE,
     inputArea |-> NoInput, editorItems |-> 0,
     timers |-> <<>>, inFlight |-> <<>>]))

\* the webform conversation up to the open picker: call declined, then
\* 'Call at a different time'
webformPicker ==
  afterTimers(handleOptionSelect(
    afterTimers(handleCallDecline(newSession("webform", "A", FALSE))),
    "Call at a different time"))

\* the confirm-visit conversation up to the open picker: 'No', then 'Yes'
confirmVisitPicker ==
  afterTimers(handleOptionSelect(
    afterTimers(handleOptionSelect(newSession("confirm visit", "A", FALSE), "No")),
    "Yes"))

\* <option value> of #minutePicker: 00, 05, ..., 55
MinuteOptions ==
  <<"00", "05", "10", "15", "20", "25", "30", "35", "40", "45", "50", "55">>

\* the values #hourPicker and #ampmPicker can hold
HourValues == 1..12
AmPmValues == {"AM", "PM"}

\* the value of the confirm event: the four fields as entered
pickerValue(date, hour, minute, ampm) ==
  date \o "T" \o NumberText(hour) \o ":" \o minute \o ampm

PickerInit ==
  /\ \E s \in {webformPicker, confirmVisitPicker} :
       /\ currentState = s.currentState
       /\ scheduledDateTime = s.scheduledDateTime
       /\ messages = s.messages
       /\ activeTab = s.activeTab
       /\ isAfter24HourFollowup = s.isAfter24HourFollowup
       /\ userHasStopped = s.userHasStopped
       /\ selectedWorkflow = s.selectedWorkflow
       /\ selectedVersion = s.selectedVersion
       /\ aiEnabled = s.aiEnabled
       /\ callingOverlay = s.callingOverlay
       /\ callScreenOverlay = s.callScreenOverlay
       /\ dateTimeModal = s.dateTimeModal
       /\ inputArea = s.inputArea
       /\ editorItems = s.editorItems
       /\ timers = s.timers
       /\ inFlight = s.inFlight
  /\ \E date \in PickerDates, hour \in HourValues, ampm \in AmPmValues :
       \E m \in 1..Len(MinuteOptions) :
         call = [date |-> date, hour |-> hour, minute |-> MinuteOptions[m],
                 ampm |-> ampm]
  /\ apiKey = "unread"
  /\ lastEvent = Event("showDateTimePicker", "")
  /\ eventsLeft = [any |-> MaxConfirms, reply |-> MaxConfirms, reset |-> 0,
                   click |-> 0, edit |-> 0]

\* Confirm pressed with the fields holding the values of `call`
ConfirmEntered ==
  /\ dateTimeModal
  /\ UserEvent("reply",
               handleDateTimeConfirm(Session, call.date, call.hour, call.minute, call.ampm),
               "handleDateTimeConfirm",
               pickerValue(call.date, call.hour, call.minute, call.ampm))
  /\ UNCHANGED apiKey

PickerNext ==
  \/ ConfirmEntered
  \/ ConfirmDateTimeButton

PickerSpec == PickerInit /\ [][PickerNext]_vars

-----------------------------------------------------------------------------
(* The categorizer on its own: categorizeUserResponse and its pattern      *)
(* matching applied to a text, under each setting and classifier response  *)

\* the texts categorized
CategorizedTexts ==
  {"", " ", "k", " K ", "ok", "hello there",
   "stop calling me tomorrow, yes or no", "yes, unsubscribe", "dnc",
   "call me later", "3:30 works", "maybe at 4 pm", "yes please",
   "sure, not now", "not interested", "nope"}

\* the strings data.choices[0].message.content can hold
Contents ==
  {"Yes", "\"No\"", " Call at a different time ", "DNC", "unknown",
   "24 hours later", "The user agrees: yes", "Maybe", "", " ",
   "Do not contact", "Do not contact.", "Unknown message."}

ClassifierResponses ==
  {[kind |-> kind, content |-> ""] : kind \in ResponseKinds \ {"content"}}
    \cup {[kind |-> "content", content |-> content] : content \in Contents}

CategorizerInit ==
  /\ \E ai \in BOOLEAN :
       LET s == newSession("webform", "A", ai)
       IN  /\ currentState = s.currentState
           /\ scheduledDateTime = s.scheduledDateTime
           /\ messages = s.messages
           /\ activeTab = s.activeTab
           /\ isAfter24HourFollowup = s.isAfter24HourFollowup
           /\ userHasStopped = s.userHasStopped
           /\ selectedWorkflow = s.selectedWorkflow
           /\ selectedVersion = s.selectedVersion
           /\ aiEnabled = s.aiEnabled
           /\ callingOverlay = s.callingOverlay
           /\ callScreenOverlay = s.callScreenOverlay
           /\ dateTimeModal = s.dateTimeModal
           /\ inputArea = s.inputArea
           /\ editorItems = s.editorItems
           /\ timers = s.timers
           /\ inFlight = s.inFlight
  /\ apiKey \in {"set", "unset"}
  /\ \E userText \in CategorizedTexts, response \in ClassifierResponses :
       call = [userText |-> userText, response |-> response,
               by |-> "", category |-> "", fetches |-> 0]
  /\ lastEvent = Event("startConversation", "")
  /\ eventsLeft = [any |-> 0, reply |-> 0, reset |-> 0, click |-> 0, edit |-> 0]

\* categorizeUserResponse(userText) runs to its return
Categorize ==
  /\ call.by = ""
  /\ \E result \in {categorizeUserResponse(call.userText, aiEnabled,
                                           apiKey = "set", call.response)} :
       call' = [call EXCEPT !.by = "categorizeUserResponse",
                            !.category = result.category,
                            !.fetches = result.fetches]
  /\ UNCHANGED <<currentState, scheduledDateTime, messages, activeTab,
                 isAfter24HourFollowup, userHasStopped, selectedWorkflow,
                 selectedVersion, aiEnabled, callingOverlay, callScreenOverlay,
                 dateTimeModal, inputArea, editorItems, timers, inFlight,
                 apiKey, lastEvent, eventsLeft>>

\* categorizeUserResponsePatternMatching(userText) runs to its return
PatternMatch ==
  /\ call.by = ""
  /\ call' = [call EXCEPT !.by = "categorizeUserResponsePatternMatching",
                          !.category = categorizeUserResponsePatternMatching(call.userText)]
  /\ UNCHANGED <<currentState, scheduledDateTime, messages, activeTab,
                 isAfter24HourFollowup, userHasStopped, selectedWorkflow,
                 selectedVersion, aiEnabled, callingOverlay, callScreenOverlay,
                 dateTimeModal, inputArea, editorItems, timers, inFlight,
                 apiKey, lastEvent, eventsLeft>>

CategorizerNext ==
  \/ Categorize
  \/ PatternMatch

CategorizerSpec == CategorizerInit /\ [][CategorizerNext]_vars

-----------------------------------------------------------------------------
(* The conversation on its own: replies only, no restart, no click on the  *)
(* diagram and no use of the editor, so that longer exchanges are covered  *)

\* replies (call buttons, option buttons, texts, picker buttons) in one run
MaxReplies == 4

ConversationInit ==
  /\ \E workflow \in Workflows, version \in Versions, ai \in BOOLEAN :
       LET s == startConversation(
                  [currentState |-> "initial", scheduledDateTime |-> <<>>,
                   messages |-> <<>>, activeTab |-> "chat",
                   isAfter24HourFollowup |-> FALSE, userHasStopped |-> FALSE,
                   selectedWorkflow |-> workflow, selectedVersion |-> version,
                   aiEnabled |-> ai, callingOverlay |-> FALSE,
                   callScreenOverlay |-> FALSE, dateTimeModal |-> FALSE,
                   inputArea |-> NoInput, editorItems |-> 0,
                   timers |-> <<>>, inFlight |-> <<>>])
       IN  /\ currentState = s.currentState
           /\ scheduledDateTime = s.scheduledDateTime
           /\ messages = s.messages
           /\ activeTab = s.activeTab
           /\ isAfter24HourFollowup = s.isAfter24HourFollowup
           /\ userHasStopped = s.userHasStopped
           /\ selectedWorkflow = s.selectedWorkflow
           /\ selectedVersion = s.selectedVersion
           /\ aiEnabled = s.aiEnabled
           /\ callingOverlay = s.callingOverlay
           /\ callScreenOverlay = s.callScreenOverlay
           /\ dateTimeModal = s.dateTimeModal
           /\ inputArea = s.inputArea
           /\ editorItems = s.editorItems
           /\ timers = s.timers
           /\ inFlight = s.inFlight
  /\ apiKey = "unread"
  /\ lastEvent = Event("startConversation", "")
  /\ eventsLeft = [any |-> MaxReplies, reply |-> MaxReplies, reset |-> 0,
                   click |-> 0, edit |-> 0]
  /\ call = <<>>

ConversationNext ==
  \/ AcceptButton
  \/ DeclineButton
  \/ EndCallButton
  \/ OptionButton
  \/ SendText
  \/ ConfirmDateTimeButton
  \/ CancelDateTimeButton
  \/ TimerFires
  \/ ClassifierReturns
  \/ Tick

ConversationSpec == ConversationInit /\ [][ConversationNext]_vars

\* the same runs, in which callbacks run when they are due and time passes
ConversationLiveSpec ==
  ConversationInit /\ [][ConversationNext]_vars
    /\ WF_vars(TimerFires) /\ WF_vars(Tick)

\* the same runs, in which moreover every classifier call settles: fetch
\* resolves or rejects, and both outcomes are among ClassifierOutputs
ConversationFairSpec ==
  ConversationInit /\ [][ConversationNext]_vars
    /\ WF_vars(TimerFires) /\ WF_vars(Tick) /\ WF_vars(ClassifierReturns)

-----------------------------------------------------------------------------
(* Three sessions side by side under the same events: product question     *)
(* version A (the session of the variables), webform version A and product *)
(* question version B (the two sessions of `call`)                         *)

\* the page loaded with the given selections, its first callbacks pending
loaded(workflow, version, ai) ==
  startConversation(
    [currentState |-> "initial", scheduledDateTime |-> <<>>,
     messages |-> <<>>, activeTab |-> "chat",
     isAfter24HourFollowup |-> FALSE, userHasStopped |-> FALSE,
     selectedWorkflow |-> workflow, selectedVersion |-> version,
     aiEnabled |-> ai, callingOverlay |-> FALSE,
     callScreenOverlay |-> FALSE, dateTimeModal |-> FALSE,
     inputArea |-> NoInput, editorItems |-> 0,
     timers |-> <<>>, inFlight |-> <<>>])

SideBySideInit ==
  /\ \E ai \in BOOLEAN :
       /\ \E s \in {loaded("product question", "A", ai)} :
            /\ currentState = s.currentState
            /\ scheduledDateTime = s.scheduledDateTime
            /\ messages = s.messages
            /\ activeTab = s.activeTab
            /\ isAfter24HourFollowup = s.isAfter24HourFollowup
            /\ userHasStopped = s.userHasStopped
            /\ selectedWorkflow = s.selectedWorkflow
            /\ selectedVersion = s.selectedVersion
            /\ aiEnabled = s.aiEnabled
            /\ callingOverlay = s.callingOverlay
            /\ callScreenOverlay = s.callScreenOverlay
            /\ dateTimeModal = s.dateTimeModal
            /\ inputArea = s.inputArea
            /\ editorItems = s.editorItems
            /\ timers = s.timers
            /\ inFlight = s.inFlight
       /\ call = [webformA |-> loaded("webform", "A", ai),
                  versionB |-> loaded("product question", "B", ai)]
  /\ apiKey = "unread"
  /\ lastEvent = Event("startConversation", "")
  /\ eventsLeft = [any |-> MaxReplies, reply |-> MaxReplies, reset |-> 0,
                   click |-> 0, edit |-> 0]

\* the three sessions become s, webformA and versionB
SideBySideCommit(s, webformA, versionB, event, left) ==
  /\ currentState' = s.currentState
  /\ scheduledDateTime' = s.scheduledDateTime
  /\ messages' = s.messages
  /\ activeTab' = s.activeTab
  /\ isAfter24HourFollowup' = s.isAfter24HourFollowup
  /\ userHasStopped' = s.userHasStopped
  /\ selectedWorkflow' = s.selectedWorkflow
  /\ selectedVersion' = s.selectedVersion
  /\ aiEnabled' = s.aiEnabled
  /\ callingOverlay' = s.callingOverlay
  /\ callScreenOverlay' = s.callScreenOverlay
  /\ dateTimeModal' = s.dateTimeModal
  /\ inputArea' = s.inputArea
  /\ editorItems' = s.editorItems
  /\ timers' = s.timers
  /\ inFlight' = s.inFlight
  /\ call' = [webformA |-> webformA, versionB |-> versionB]
  /\ lastEvent' = event
  /\ eventsLeft' = left
  /\ UNCHANGED apiKey

\* the same listener runs in the three sessions
SideBySideEvent(handler(_), name, arg) ==
  /\ eventsLeft.reply > 0
  /\ \E s \in {handler(Session)} :
       SideBySideCommit(s, handler(call.webformA), handler(call.versionB),
                        Event(name, arg),
                        [eventsLeft EXCEPT !.any = @ - 1, !.reply = @ - 1])

BothAccept ==
  /\ callingOverlay /\ call.webformA.callingOverlay /\ call.versionB.callingOverlay
  /\ SideBySideEvent(handleCallAccept, "handleCallAccept", "")

BothDecline ==
  /\ callingOverlay /\ call.webformA.callingOverlay /\ call.versionB.callingOverlay
  /\ SideBySideEvent(handleCallDecline, "handleCallDecline", "")

BothEndCall ==
  /\ callScreenOverlay /\ call.webformA.callScreenOverlay
  /\ call.versionB.callScreenOverlay
  /\ SideBySideEvent(handleEndCall, "handleEndCall", "")

BothOption ==
  /\ inputArea.kind = "buttons"
  /\ call.webformA.inputArea = inputArea
  /\ call.versionB.inputArea = inputArea
  /\ \E k \in 1..Len(inputArea.options) :
       SideBySideEvent(LAMBDA s : handleOptionSelect(s, inputArea.options[k]),
                       "handleOptionSelect", inputArea.options[k])

BothConfirmDateTime ==
  /\ dateTimeModal /\ call.webformA.dateTimeModal /\ call.versionB.dateTimeModal
  /\ \E date \in PickerDates, hour \in PickerHours, minute \in PickerMinutes :
       SideBySideEvent(
         LAMBDA s : handleDateTimeConfirm(s, date, hour, minute, handleHourChange(hour)),
         "handleDateTimeConfirm",
         pickerValue(date, hour, minute, handleHourChange(hour)))

BothCancelDateTime ==
  /\ dateTimeModal /\ call.webformA.dateTimeModal /\ call.versionB.dateTimeModal
  /\ SideBySideEvent(handleDateTimeCancel, "handleDateTimeCancel", "")

\* the deadlines of a session's pending callbacks
Deadlines(s) == [i \in 1..Len(s.timers) |-> s.timers[i].rem]

BothTimerFires ==
  /\ \E i \in 1..Len(timers) : timers[i].rem = 0
  /\ Deadlines(call.webformA) = Deadlines(Session)
  /\ Deadlines(call.versionB) = Deadlines(Session)
  /\ SideBySideCommit(fireTimer(Session), fireTimer(call.webformA),
                      fireTimer(call.versionB),
                      Event("timer", timers[DueTimer(Session)].steps[1].op),
                      eventsLeft)

passTime(s) ==
  [s EXCEPT !.timers = [i \in 1..Len(s.timers) |-> [s.timers[i] EXCEPT !.rem = @ - 1]]]

\* 500 ms pass in the three sessions
BothTick ==
  /\ timers # <<>>
  /\ \A i \in 1..Len(timers) : timers[i].rem > 0
  /\ Deadlines(call.webformA) = Deadlines(Session)
  /\ Deadlines(call.versionB) = Deadlines(Session)
  /\ SideBySideCommit(passTime(Session), passTime(call.webformA),
                      passTime(call.versionB), Event("tick", ""), eventsLeft)

SideBySideNext ==
  \/ BothAccept
  \/ BothDecline
  \/ BothEndCall
  \/ BothOption
  \/ BothConfirmDateTime
  \/ BothCancelDateTime
  \/ BothTimerFires
  \/ BothTick

SideBySideSpec == SideBySideInit /\ [][SideBySideNext]_vars

-----------------------------------------------------------------------------
(* The picker with restarts: every value of the four fields confirmed or   *)
(* cancelled, and the conversation reset afterwards                        *)

ScheduleInit ==
  /\ \E s \in {webformPicker, confirmVisitPicker} :
       /\ currentState = s.currentState
       /\ scheduledDateTime = s.scheduledDateTime
       /\ messages = s.messages
       /\ activeTab = s.activeTab
       /\ isAfter24HourFollowup = s.isAfter24HourFollowup
       /\ userHasStopped = s.userHasStopped
       /\ selectedWorkflow = s.selectedWorkflow
       /\ selectedVersion = s.selectedVersion
       /\ aiEnabled = s.aiEnabled
       /\ callingOverlay = s.callingOverlay
       /\ callScreenOverlay = s.callScreenOverlay
       /\ dateTimeModal = s.dateTimeModal
       /\ inputArea = s.inputArea
       /\ editorItems = s.editorItems
       /\ timers = s.timers
       /\ inFlight = s.inFlight
  /\ \E date \in PickerDates, hour \in HourValues, ampm \in AmPmValues :
       \E m \in 1..Len(MinuteOptions) :
         call = [date |-> date, hour |-> hour, minute |-> MinuteOptions[m],
                 ampm |-> ampm]
  /\ apiKey = "unread"
  /\ lastEvent = Event("showDateTimePicker", "")
  /\ eventsLeft = [any |-> MaxConfirms + MaxResets, reply |-> MaxConfirms,
                   reset |-> MaxResets, click |-> 0, edit |-> 0]

ScheduleNext ==
  \/ ConfirmEntered
  \/ CancelDateTimeButton
  \/ BackButton
  \/ TimerFires
  \/ Tick

ScheduleSpec == ScheduleInit /\ [][ScheduleNext]_vars

-----------------------------------------------------------------------------
(* Properties *)

BotMessages(log) == Cardinality({i \in 1..Len(log) : log[i].sender = "bot"})

IsPrefix(earlier, later) ==
  /\ Len(earlier) <= Len(later)
  /\ SubSeq(later, 1, Len(earlier)) = earlier

\* the last step was a restart of the conversation
ResetEvents ==
  {"resetConversation", "handleWorkflowSelect", "handleVersionSelect", "handleAIToggle"}

\* C1: once STOP has set the opt-out flag, no step, whether a user event or a
\* callback that was already pending, adds a bot-authored message to the log
\* for as long as the flag stays set (a reset clears it).
C1_NoBotMessageAfterStop ==
  [][(userHasStopped /\ userHasStopped')
       => BotMessages(messages') <= BotMessages(messages)]_vars

\* a callback that appends a bot message has run while the user had opted out
C1_Witness ==
  /\ userHasStopped
  /\ lastEvent.name = "timer"
  /\ lastEvent.arg = "addBotMessage"

\* the typed values whose trimmed text is STOP in any letter case
StopTexts == {value \in Texts : UpperCased[Trimmed[value]] = "STOP"}

\* C2: submitting STOP appends exactly one user message carrying the trimmed
\* text and sets the opt-out flag; workflow, conversation state, follow-up
\* flag and scheduled time are unchanged, the classifier is not called (no
\* request in flight, API key not read) and no option is dispatched (nothing
\* scheduled, no overlay or picker opened).
C2_StopOnlyOptsOut ==
  [][\A value \in StopTexts :
       lastEvent' = Event("handleTextInput", value)
         => /\ messages' = Append(messages, Message("user", Trimmed[value], <<>>))
            /\ userHasStopped'
            /\ UNCHANGED <<selectedWorkflow, selectedVersion, currentState,
                           isAfter24HourFollowup, scheduledDateTime, inFlight,
                           apiKey, timers, callingOverlay, callScreenOverlay,
                           dateTimeModal>>]_vars

\* a STOP has just been submitted
C2_Witness ==
  /\ lastEvent.name = "handleTextInput"
  /\ lastEvent.arg \in StopTexts
  /\ userHasStopped
  /\ messages[Len(messages)] = Message("user", "Stop", <<>>)

\* C3: the conversation state belongs to the family of the selected workflow:
\* never a confirm_visit_* state under webform or product question, and only
\* a confirm_visit_* state or the shared unknown state under confirm visit.
C3_StateInWorkflowFamily ==
  /\ selectedWorkflow \in {"webform", "product question"}
       => currentState \notin ConfirmVisitStates
  /\ selectedWorkflow = "confirm visit"
       => currentState \in ConfirmVisitStates \cup {"unknown"}

\* the positions of the log after a step that the step has written: all of
\* them when the step cleared the log, none when the editor rewrote a text
\* in place, else those past the end of the log before
Written ==
  IF IsPrefix(messages, messages') THEN (Len(messages) + 1)..Len(messages')
  ELSE IF lastEvent'.name = "saveDialogueMessage" THEN {}
  ELSE 1..Len(messages')

\* C4: the earliest bot-authored message of the log is the disclosure,
\* whatever user messages, resets and callbacks produced the log: a step
\* that writes the log's earliest bot-authored message writes the disclosure,
\* so that every other bot-authored message has the disclosure before it.
C4_DisclosureFirst ==
  [][\A i \in Written :
       (/\ messages'[i].sender = "bot"
        /\ \A j \in 1..(i - 1) : messages'[j].sender # "bot")
         => messages'[i].text = ADT_INTRO_MESSAGE]_vars

\* C5: a callback or a classification result left pending by a reset has no
\* effect on the session the reset created: it changes neither the log nor
\* the conversation state nor the flags.
C5_StaleCallbacksDropped ==
  [][lastEvent'.stale
       => UNCHANGED <<messages, currentState, isAfter24HourFollowup,
                      userHasStopped, scheduledDateTime>>]_vars

\* the labels the step hands to handleOptionSelect: the option of the button
\* clicked, or the category the classifier's answer was parsed to
Dispatched ==
  IF lastEvent'.name \in {"handleOptionSelect", "classified"}
  THEN {lastEvent'.arg} ELSE {}

\* C6: dispatching a label that the current conversation state does not
\* offer is ignored: the log, the conversation state and the flags are
\* unchanged.
C6_UnofferedOptionIgnored ==
  [][\A label \in Dispatched :
       label \notin Range(OfferedOptions(Session))
         => UNCHANGED <<messages, currentState, isAfter24HourFollowup,
                        userHasStopped, scheduledDateTime>>]_vars

\* Runs with one more user event than in Spec: two submissions and, between
\* them, the click that brings the text input back
OverlapInit == Start(MaxEvents + 1)

OverlapSpec == OverlapInit /\ [][Next]_vars

\* C7: the results of overlapping classifications are dispatched in the
\* order of submission: the result that is applied is that of the earliest
\* text still in flight.
C7_DispatchInSubmissionOrder ==
  [][lastEvent'.name = "classified" => inFlight' = Tail(inFlight)]_vars

\* the typed values that handleTextInput takes for a confirm-visit intent
IntentTexts ==
  {value \in Texts : /\ Trimmed[value] # ""
                     /\ UpperCased[Trimmed[value]] # "STOP"
                     /\ ConfirmVisitIntent[Trimmed[value]]}

\* C8: a confirm-visit intent typed under the webform workflow keeps the log:
\* the submission only appends the user's trimmed text, and the delayed step
\* only appends after it, so every earlier message stays at its position
\* with its sender, text and options.
C8_SwitchKeepsLog ==
  [][/\ \A value \in IntentTexts :
          (selectedWorkflow = "webform" /\ lastEvent' = Event("handleTextInput", value))
            => messages' = Append(messages, Message("user", Trimmed[value], <<>>))
     /\ (lastEvent'.name = "timer" /\ lastEvent'.arg = "confirmVisitInitialMessage")
          => IsPrefix(messages, messages')]_vars

\* webform messages, then the intent text, then the confirm-visit prompt
C8_Witness ==
  /\ lastEvent = Event("timer", "confirmVisitInitialMessage")
  /\ Len(messages) >= 4
  /\ messages[1].text = ADT_INTRO_MESSAGE
  /\ messages[2].text = WebformReceivedText
  /\ messages[Len(messages) - 1].sender = "user"
  /\ messages[Len(messages) - 1].text \in {Trimmed[value] : value \in IntentTexts}
  /\ messages[Len(messages)].text = ConfirmVisitPromptText

\* the callback that switchToConfirmVisitWorkflow schedules
PromptCallback ==
  [rem |-> MessageDelay, steps |-> Callback("confirmVisitInitialMessage"),
   stale |-> FALSE]

\* the switch has just been made and its callback is pending
Switched ==
  /\ lastEvent.name = "handleTextInput"
  /\ lastEvent.arg \in IntentTexts
  /\ selectedWorkflow = "confirm visit"
  /\ currentState = "confirm_visit_initial"
  /\ timers # <<>>
  /\ timers[Len(timers)] = PromptCallback

\* the delayed step has run: the state is confirm_visit_waiting and the log
\* ends with the prompt and its five options
Prompted ==
  /\ lastEvent = Event("timer", "confirmVisitInitialMessage")
  /\ currentState = "confirm_visit_waiting"
  /\ messages # <<>>
  /\ messages[Len(messages)] =
       Message("bot", ConfirmVisitPromptText,
               <<"Yes", "No", "Cancel Appointment", "DNC", "Unknown message">>)

\* a reset has just run in a session that a switch had left at version A (a
\* click on the button of the version already selected resets nothing)
ResetAfterSwitch ==
  \/ lastEvent.name \in {"resetConversation", "handleWorkflowSelect", "handleAIToggle"}
  \/ lastEvent = Event("handleVersionSelect", "B")

\* C9: a confirm-visit intent typed under the webform workflow sets the
\* workflow to confirm visit and the state to confirm_visit_initial in the
\* same step and schedules the delayed step; unless a reset intervenes, the
\* delayed step eventually sets the state to confirm_visit_waiting and
\* appends the prompt with the options Yes, No, Cancel Appointment, DNC,
\* Unknown message.
C9_SwitchThenPrompt ==
  /\ [][\A value \in IntentTexts :
          (selectedWorkflow = "webform" /\ lastEvent' = Event("handleTextInput", value))
            => /\ selectedWorkflow' = "confirm visit"
               /\ currentState' = "confirm_visit_initial"
               /\ timers' = Append(timers, PromptCallback)]_vars
  /\ Switched ~> (Prompted \/ ResetAfterSwitch)

\* the prompt has arrived after a switch made from the webform's question
C9_Witness ==
  /\ Prompted
  /\ selectedWorkflow = "confirm visit"
  /\ \E i \in 1..Len(messages) :
       /\ messages[i].sender = "user"
       /\ messages[i].text \in {Trimmed[value] : value \in IntentTexts}

\* The runs that start under the webform workflow, in which callbacks run
\* when they are due and time passes; one more user event than in Spec, so
\* that a click can fall between the switch and its delayed step
LiveInit == Start(MaxEvents + 1) /\ selectedWorkflow = "webform"

LiveSpec == LiveInit /\ [][Next]_vars /\ WF_vars(TimerFires) /\ WF_vars(Tick)

\* the steps in which the code empties the log before writing to it
ClearingEvents == ResetEvents \cup {"stateGroupClick"}

\* what startConversation or a click on a state box leaves in an emptied log
FreshLog(log) ==
  \/ log = <<>>
  \/ /\ Len(log) = 2
     /\ log[1] = Message("bot", ADT_INTRO_MESSAGE, <<>>)
     /\ log[2].sender = "bot"
     /\ log[2].text \in {WebformReceivedText, ProductReceivedText,
                         WebformFollowupText, ProductFollowupText}

Cleared == lastEvent'.name \in ClearingEvents /\ FreshLog(messages')

\* C10 as stated: every change to the log is an append at its end or a
\* complete clearing; no step replaces, removes or reorders entries.
C10_AppendOrClear ==
  [][IsPrefix(messages, messages') \/ Cleared]_vars

\* the editor's Save wrote the trimmed textarea value into one entry
Rewritten ==
  /\ lastEvent'.name = "saveDialogueMessage"
  /\ \E i \in 1..Len(messages) :
       messages' = [messages EXCEPT ![i].text = trim(lastEvent'.arg)]

\* C10 amended: every change to the log is an append at its end, a complete
\* clearing, or the dialogue editor's Save rewriting the text of one entry
\* in place; no step removes or reorders entries or changes a sender or an
\* option list.
C10_AppendClearOrRewrite ==
  [][IsPrefix(messages, messages') \/ Cleared \/ Rewritten]_vars

\* Save has rewritten an entry of a log that has other entries
C10_Witness ==
  /\ lastEvent.name = "saveDialogueMessage"
  /\ Len(messages) >= 2
  /\ \E i \in 1..Len(messages) : messages[i].text = trim(lastEvent.arg)

\* the step restarts the conversation: the back button, a workflow button,
\* the AI toggle, or a version button other than the selected one
Restarted ==
  \/ lastEvent'.name \in {"resetConversation", "handleWorkflowSelect", "handleAIToggle"}
  \/ lastEvent'.name = "handleVersionSelect" /\ selectedVersion' # selectedVersion

\* what startConversation writes to the emptied log before its first delay
StartLog(workflow, version) ==
  CASE workflow = "product question" ->
         <<Message("bot", ADT_INTRO_MESSAGE, <<>>),
           Message("bot", ProductReceivedText, <<>>)>>
    [] workflow = "webform" /\ version = "A" ->
         <<Message("bot", ADT_INTRO_MESSAGE, <<>>),
           Message("bot", WebformReceivedText, <<>>)>>
    [] OTHER -> <<>>

\* C11: after resetConversation, a workflow selection, a change of version
\* or an AI toggle the session is fresh: the log holds only what the new
\* session's start has written (no message from before), the opt-out flag
\* and the follow-up flag are false, no time is scheduled, and the state is
\* the start state of the selected workflow (confirm_visit_initial under
\* confirm visit, initial otherwise).
C11_FreshAfterReset ==
  [][Restarted
       => /\ messages' = StartLog(selectedWorkflow', selectedVersion')
          /\ ~userHasStopped'
          /\ ~isAfter24HourFollowup'
          /\ scheduledDateTime' = <<>>
          /\ currentState' = IF selectedWorkflow' = "confirm visit"
                             THEN "confirm_visit_initial" ELSE "initial"]_vars

\* a restart has just run in a session in which the user had replied, with
\* callbacks of that session still pending
C11_Witness ==
  /\ lastEvent.name \in ResetEvents
  /\ eventsLeft.reply < MaxEvents
  /\ eventsLeft.reset < MaxResets
  /\ \E i \in 1..Len(timers) : timers[i].stale
  /\ messages = StartLog(selectedWorkflow, selectedVersion)
  /\ ~userHasStopped

\* the user messages the step's event carries: the option of the button
\* clicked, or the trimmed text of a non-empty submission
UserMessages ==
  IF lastEvent'.name = "handleOptionSelect"
  THEN {Message("user", lastEvent'.arg, <<>>)}
  ELSE IF lastEvent'.name = "handleTextInput" /\ Trimmed[lastEvent'.arg] # ""
  THEN {Message("user", Trimmed[lastEvent'.arg], <<>>)}
  ELSE {}

\* C12: for every option selection and every non-empty free-text submission
\* the user's message is appended to the log first: the log before the step
\* stays, the user's message is the entry right after it, every bot reply
\* of the step comes after the user's message, and a step that changes the
\* conversation state has appended the user's message.
C12_UserMessageFirst ==
  [][\A m \in UserMessages :
       /\ IsPrefix(messages, messages')
       /\ Len(messages') > Len(messages)
       /\ messages'[Len(messages) + 1] = m
       /\ \A i \in 1..Len(messages') :
            (i > Len(messages) /\ messages'[i].sender = "bot") => i > Len(messages) + 1]_vars

\* an option was selected whose reply is appended, and the state changed, by
\* the selection itself: the log ends with the option and the reply
C12_Witness ==
  /\ lastEvent = Event("handleOptionSelect", "Do not contact")
  /\ currentState = "ended"
  /\ Len(messages) >= 2
  /\ messages[Len(messages) - 1] = Message("user", "Do not contact", <<>>)
  /\ messages[Len(messages)] = Message("bot", NiceDayText, <<>>)

\* C13: the follow-up flag is true only in the state followup_next_day:
\* whenever the state is another one (scheduling_time, ended, unknown, or a
\* state reached through a workflow switch) the flag is false.
C13_FlagOnlyInFollowup ==
  isAfter24HourFollowup => currentState = "followup_next_day"

\* the picker confirmed with a date and with the first, or the last, time
\* of the business-hours window
WindowEnds ==
  {Event("handleDateTimeConfirm", "2026-11-04T9:00AM"),
   Event("handleDateTimeConfirm", "2026-11-04T5:00PM")}

\* C14: the validator accepts both ends of the business-hours window:
\* confirming the picker in scheduling_time with 9:00 AM, and with exactly
\* 5:00 PM, stores the scheduled time and moves to time_scheduled.
C14_WindowEndsAccepted ==
  [][(currentState = "scheduling_time" /\ lastEvent' \in WindowEnds)
       => /\ scheduledDateTime' = <<"2026-11-04", hours24Of(5, "PM"), "00">>
             \/ scheduledDateTime' = <<"2026-11-04", hours24Of(9, "AM"), "00">>
          /\ currentState' = "time_scheduled"]_vars

\* the number a minute option stands for
MinuteNumber(minute) ==
  5 * ((CHOOSE m \in 1..Len(MinuteOptions) : MinuteOptions[m] = minute) - 1)

\* minutes since midnight of a 12-hour time: 12 AM is hour 0, 12 PM is hour
\* 12, the other PM hours are 12 later
MinuteOfDay(hour, minute, ampm) ==
  60 * ((hour % 12) + (IF ampm = "PM" THEN 12 ELSE 0)) + MinuteNumber(minute)

\* the step is the confirm of the entered values
ConfirmsEntered ==
  /\ dateTimeModal
  /\ lastEvent' = Event("handleDateTimeConfirm",
                        pickerValue(call.date, call.hour, call.minute, call.ampm))

\* the confirm returned after its alert: nothing stored, nothing appended,
\* the state kept and the picker still displayed
Rejected ==
  /\ UNCHANGED <<currentState, scheduledDateTime, messages>>
  /\ dateTimeModal'

\* C15: for every hour, minute and AM/PM value, the validator rejects every
\* time before 09:00 and every time after 17:00 of the 24-hour clock (12 AM
\* is 0, 12 PM is 12, the other PM hours are 12 later).
C15_OutsideHoursRejected ==
  [][(/\ ConfirmsEntered
      /\ \/ MinuteOfDay(call.hour, call.minute, call.ampm) < 9 * 60
         \/ MinuteOfDay(call.hour, call.minute, call.ampm) > 17 * 60)
       => Rejected]_vars

\* 8:55 AM, 5:05 PM or 12:30 AM of a chosen date has been confirmed and
\* nothing is scheduled
C15_Witness ==
  /\ call \in {[date |-> "2026-11-04", hour |-> 8, minute |-> "55", ampm |-> "AM"],
               [date |-> "2026-11-04", hour |-> 5, minute |-> "05", ampm |-> "PM"],
               [date |-> "2026-11-04", hour |-> 12, minute |-> "30", ampm |-> "AM"]}
  /\ lastEvent = Event("handleDateTimeConfirm",
                       pickerValue(call.date, call.hour, call.minute, call.ampm))
  /\ eventsLeft.any = MaxConfirms - 1
  /\ dateTimeModal
  /\ scheduledDateTime = <<>>
  /\ currentState = "scheduling_time"

\* the entered values miss the date or are a time the validator refuses
EnteredRefused ==
  \/ call.date = ""
  \/ dateTimeRejected(call.date, call.hour, call.minute, call.ampm)

\* the step confirms 9:00 AM of a chosen date in the picker that an earlier
\* confirm has left open
ConfirmsValidLater ==
  /\ dateTimeModal
  /\ lastEvent.name = "handleDateTimeConfirm"
  /\ lastEvent' = Event("handleDateTimeConfirm", pickerValue("2026-11-04", 9, "00", "AM"))

\* C16: a confirm that rejects its input (a missing field, or a time outside
\* business hours) leaves the session unchanged: the state stays
\* scheduling_time or confirm_visit_reschedule_selecting_time, the scheduled
\* time keeps its value, no message is appended and the picker stays open;
\* a later valid confirm stores its time, closes the picker and moves on.
C16_RejectedConfirmKeepsSession ==
  [][/\ (ConfirmsEntered /\ EnteredRefused)
          => /\ Rejected
             /\ currentState' \in {"scheduling_time",
                                   "confirm_visit_reschedule_selecting_time"}
     /\ ConfirmsValidLater
          => /\ scheduledDateTime' = <<"2026-11-04", 9, "00">>
             /\ ~dateTimeModal'
             /\ Len(messages') = Len(messages) + 1
             /\ currentState' = IF currentState = "scheduling_time"
                                THEN "time_scheduled"
                                ELSE "confirm_visit_confirmed"]_vars

\* a valid confirm has succeeded in the picker that a rejected confirm had
\* left open
C16_Witness ==
  /\ lastEvent = Event("handleDateTimeConfirm", pickerValue("2026-11-04", 9, "00", "AM"))
  /\ EnteredRefused
  /\ eventsLeft.any = MaxConfirms - 2
  /\ scheduledDateTime = <<"2026-11-04", 9, "00">>
  /\ ~dateTimeModal
  /\ currentState \in {"time_scheduled", "confirm_visit_confirmed"}

\* C17: for every text whose trimmed length is less than 2,
\* categorizeUserResponse returns '24 hours later (No response)' whether AI
\* is enabled or not, and makes no call to the external classifier.
C17_ShortTextNoResponse ==
  (call.by = "categorizeUserResponse" /\ Len(trim(call.userText)) < 2)
    => (call.category = "24 hours later (No response)" /\ call.fetches = 0)

\* a one-letter text has been categorized with AI enabled and the key set
C17_Witness ==
  /\ call.by = "categorizeUserResponse"
  /\ call.userText = " K "
  /\ aiEnabled
  /\ apiKey = "set"
  /\ call.category = "24 hours later (No response)"

\* the answer names a category: after the quotes and the blanks around it
\* are taken off it is not empty and, in lower case, it contains a key of
\* categoryMap or is contained in one
Recognized(content) ==
  LET lowerCategory == toLowerCase(trim(stripQuotes(trim(content))))
  IN  /\ lowerCategory # ""
      /\ \E k \in 1..Len(categoryMap) :
           \/ includes(lowerCategory, categoryMap[k][1])
           \/ includes(categoryMap[k][1], lowerCategory)

\* the classifier call has failed: it threw, returned a non-success status,
\* a malformed or incomplete body, or an answer that names no category
ClassifierFailed ==
  \/ call.response.kind # "content"
  \/ ~Recognized(call.response.content)

\* C18: with AI enabled, whenever the classifier call throws or returns a
\* non-success status, a malformed or incomplete body, or an output outside
\* the recognized set, categorizeUserResponse returns exactly the category
\* of the pattern matching for the same text, after at most one call of the
\* classifier.
C18_FailureFallsBack ==
  (/\ call.by = "categorizeUserResponse"
   /\ aiEnabled
   /\ apiKey = "set"
   /\ Len(trim(call.userText)) >= 2
   /\ ClassifierFailed)
    => /\ call.category = categorizeUserResponsePatternMatching(call.userText)
       /\ call.fetches <= 1

\* the rule groups a text matches, by priority: 1 do not contact, 2 call at
\* a different time, 3 yes, 4 no
MatchedGroups(userText) ==
  LET text == trim(toLowerCase(userText))
  IN  {g \in 1..4 :
         \/ g = 1 /\ some(dncPatterns, text)
         \/ g = 2 /\ (some(timePatterns, text) \/ MatchesClockTime(text)
                        \/ MatchesHourAmPm(text))
         \/ g = 3 /\ some(yesPatterns, text)
         \/ g = 4 /\ some(noPatterns, text)}

GroupCategory ==
  <<"Do not contact", "Call at a different time", "Yes", "No">>

\* C19: the pattern matching returns the category of the first of the
\* groups do not contact, call at a different time, yes, no that has a
\* matching pattern, and 'Unknown message' if none has; a text with a
\* do-not-contact pattern yields 'Do not contact' whatever else it
\* contains, and the result is never '24 hours later (No response)'.
C19_FirstGroupWins ==
  call.by = "categorizeUserResponsePatternMatching"
    => /\ \A g \in MatchedGroups(call.userText) :
            (\A h \in MatchedGroups(call.userText) : g <= h)
              => call.category = GroupCategory[g]
       /\ MatchedGroups(call.userText) = {} => call.category = "Unknown message"
       /\ call.category # "24 hours later (No response)"

\* a text with patterns of all four groups has been categorized
C19_Witness ==
  /\ call.by = "categorizeUserResponsePatternMatching"
  /\ call.userText = "stop calling me tomorrow, yes or no"
  /\ MatchedGroups(call.userText) = 1..4
  /\ call.category = "Do not contact"

\* a webform version A session in which only replies have been made, `n` of
\* them, in the runs of LiveSpec
AfterReplies(n) ==
  /\ selectedWorkflow = "webform"
  /\ selectedVersion = "A"
  /\ eventsLeft.any = MaxEvents + 1 - n
  /\ eventsLeft.reply = MaxEvents + 1 - n

\* the call has just been declined, as the first event of the session
Declined ==
  /\ AfterReplies(1)
  /\ lastEvent = Event("handleCallDecline", "")
  /\ currentState = "call_declined"

\* the call question is asked with its six options
Asked ==
  /\ currentState = "waiting_for_response"
  /\ messages # <<>>
  /\ messages[Len(messages)] = Message("bot", WebformQuestionText, CallQuestionOptions)

\* 'No' has been selected twice after the decline: to the call question and
\* to the better-time question
DeclinedNoNo ==
  /\ AfterReplies(3)
  /\ lastEvent = Event("handleOptionSelect", "No")
  /\ Len(messages) = 6
  /\ messages[3] = Message("bot", WebformQuestionText, CallQuestionOptions)
  /\ messages[4] = Message("user", "No", <<>>)
  /\ messages[5] = Message("bot", BetterTimeText, YesNoOptions)
  /\ messages[6] = Message("user", "No", <<>>)

\* the follow-up of the next day has been sent
FollowedUp ==
  /\ currentState = "followup_next_day"
  /\ isAfter24HourFollowup

\* C20: in a webform version A session, declining the call leads to the
\* call question; selecting 'Do not contact' there sets the state to ended;
\* selecting 'No' there and 'No' to the better-time question leads, once the
\* delayed steps have run, to the state followup_next_day with the
\* follow-up flag true.
C20_DeclinePaths ==
  /\ Declined ~> (Asked \/ ~AfterReplies(1))
  /\ [][(Asked /\ AfterReplies(1)
           /\ lastEvent' = Event("handleOptionSelect", "Do not contact"))
          => currentState' = "ended"]_vars
  /\ DeclinedNoNo ~> FollowedUp

\* decline, 'No', 'No', and the follow-up has arrived
C20_Witness ==
  /\ AfterReplies(3)
  /\ FollowedUp
  /\ Len(messages) >= 8
  /\ messages[4] = Message("user", "No", <<>>)
  /\ messages[5] = Message("bot", BetterTimeText, YesNoOptions)
  /\ messages[6] = Message("user", "No", <<>>)
  /\ messages[8] = Message("bot", WebformFollowupText, <<>>)

\* the step dispatches `label` in the state `state` of the workflow
Dispatches(workflow, state, label) ==
  /\ selectedWorkflow = workflow
  /\ currentState = state
  /\ label \in Dispatched

\* the step confirms 9:00 AM of 2026-11-04 in the open picker
ConfirmsValid ==
  /\ dateTimeModal
  /\ lastEvent' = Event("handleDateTimeConfirm", pickerValue("2026-11-04", 9, "00", "AM"))

\* C21: under confirm visit, in confirm_visit_reschedule_waiting 'Yes' moves
\* to confirm_visit_reschedule_selecting_time, 'No' to
\* confirm_visit_cancelled and 'Unknown message' to unknown; a valid confirm
\* in confirm_visit_reschedule_selecting_time moves to
\* confirm_visit_confirmed and appends a bot message with the chosen date
\* and time; 'No' in confirm_visit_waiting moves towards the reschedule
\* question, so that No, Yes, valid confirm ends in confirm_visit_confirmed.
C21_RescheduleBranches ==
  [][/\ Dispatches("confirm visit", "confirm_visit_reschedule_waiting", "Yes")
          => currentState' = "confirm_visit_reschedule_selecting_time"
     /\ Dispatches("confirm visit", "confirm_visit_reschedule_waiting", "No")
          => currentState' = "confirm_visit_cancelled"
     /\ Dispatches("confirm visit", "confirm_visit_reschedule_waiting", "Unknown message")
          => currentState' = "unknown"
     /\ Dispatches("confirm visit", "confirm_visit_waiting", "No")
          => currentState' = "confirm_visit_reschedule_question"
     /\ (lastEvent'.name = "timer" /\ lastEvent'.arg = "confirmVisitRescheduleQuestion")
          => currentState' = "confirm_visit_reschedule_waiting"
     /\ (ConfirmsValid /\ currentState = "confirm_visit_reschedule_selecting_time")
          => /\ currentState' = "confirm_visit_confirmed"
             /\ scheduledDateTime' = <<"2026-11-04", 9, "00">>
             /\ ~userHasStopped
                  => /\ Len(messages') = Len(messages) + 1
                     /\ messages'[Len(messages')].sender = "bot"
                     /\ includes(messages'[Len(messages')].text,
                                 "Wednesday, November 4, 2026 at 9:00 AM")]_vars

\* No, Yes and a valid confirm have been made from confirm_visit_waiting
C21_Witness ==
  /\ selectedWorkflow = "confirm visit"
  /\ currentState = "confirm_visit_confirmed"
  /\ lastEvent = Event("handleDateTimeConfirm", pickerValue("2026-11-04", 9, "00", "AM"))
  /\ Len(messages) = 6
  /\ messages[3] = Message("user", "No", <<>>)
  /\ messages[4] = Message("bot", ConfirmVisitRescheduleText, YesNoOptions)
  /\ messages[5] = Message("user", "Yes", <<>>)
  /\ messages[6] = Message("bot", RescheduledText(<<"2026-11-04", 9, "00">>), <<>>)

\* in a terminal state the step dispatches a label
DispatchesInTerminal ==
  /\ currentState \in {"ended", "unknown"}
  /\ Dispatched # {}

\* C22: ended and unknown are terminal for option dispatch: in these states
\* no dispatched label changes the conversation state or appends a bot
\* message, and the state changes again only through a reset (clicks on the
\* state boxes of the diagram, which set the state directly, aside).
C22_TerminalStates ==
  [][/\ DispatchesInTerminal
          => (currentState' = currentState
                /\ BotMessages(messages') = BotMessages(messages))
     /\ (/\ currentState \in {"ended", "unknown"}
         /\ currentState' # currentState
         /\ eventsLeft'.click = MaxClicks)
          => Restarted]_vars

\* what two sessions of the same state machine have in common: the state,
\* the follow-up flag, the sender and the options of every message, and
\* what the page offers next (overlays, picker, buttons, pending deadlines)
Shape(s) ==
  [currentState |-> s.currentState,
   isAfter24HourFollowup |-> s.isAfter24HourFollowup,
   messages |-> [i \in 1..Len(s.messages) |->
                   <<s.messages[i].sender, s.messages[i].options>>],
   callingOverlay |-> s.callingOverlay,
   callScreenOverlay |-> s.callScreenOverlay,
   dateTimeModal |-> s.dateTimeModal,
   inputArea |-> s.inputArea,
   deadlines |-> Deadlines(s)]

\* C23: under the same calls accepted and declined, options selected and
\* picker confirms and cancels, a product question session and a webform
\* version A session go through the same conversation states and follow-up
\* flag values and append messages with the same senders and option sets;
\* and a product question session is the same under version A and under
\* version B, texts included.
C23_ProductQuestionLikeWebformA ==
  /\ Shape(Session) = Shape(call.webformA)
  /\ call.versionB = [Session EXCEPT !.selectedVersion = "B"]

\* the two sessions have reached the follow-up of the next day and differ
\* in a bot text
C23_Witness ==
  /\ currentState = "followup_next_day"
  /\ call.webformA.currentState = "followup_next_day"
  /\ isAfter24HourFollowup
  /\ Len(messages) >= 8
  /\ messages[Len(messages) - 1].text = ProductFollowupText
  /\ call.webformA.messages[Len(messages) - 1].text = WebformFollowupText

\* the states in which the conversation awaits a reply
AwaitingReply ==
  {"waiting_for_response", "followup_next_day", "asking_better_time",
   "asking_after_cancel", "confirm_visit_waiting",
   "confirm_visit_reschedule_waiting"}

\* the step appends a bot message that carries options
AppendsQuestion ==
  \E i \in (Len(messages) + 1)..Len(messages') :
    messages'[i].sender = "bot" /\ messages'[i].options # <<>>

\* C24: a reply dispatched as 'Do not contact' in a state that awaits a
\* reply moves the session to ended or confirm_visit_dnc, in every
\* workflow; in these two states no step appends a bot message that carries
\* options, until a reset.
C24_DoNotContactEnds ==
  [][/\ (currentState \in AwaitingReply /\ "Do not contact" \in Dispatched)
          => currentState' \in {"ended", "confirm_visit_dnc"}
     /\ (currentState \in {"ended", "confirm_visit_dnc"} /\ AppendsQuestion)
          => Restarted]_vars

\* the follow-up question of the session's workflow
FollowupText ==
  IF selectedWorkflow = "product question"
  THEN ProductFollowupText ELSE WebformFollowupText

\* the 24 hours have just passed in a session that was not stopped
JustPassed ==
  /\ lastEvent.name = "timer"
  /\ lastEvent.arg = "timePassed"
  /\ ~userHasStopped

\* the disclosure and the follow-up question are neighbours in the log and
\* a later entry carries exactly the options Yes and No
OptionsAfterFollowup ==
  \E i \in 1..Len(messages) - 2 :
    /\ messages[i] = Message("bot", ADT_INTRO_MESSAGE, <<>>)
    /\ messages[i + 1] = Message("bot", FollowupText, <<>>)
    /\ \E j \in i + 2..Len(messages) :
         messages[j] = Message("bot", "", <<"Yes", "No">>)

\* C25: when the 24 hours pass in a session that was not stopped, that one
\* step appends the disclosure and then the follow-up question, nothing
\* between them and neither with options, and sets the state to
\* followup_next_day and the follow-up flag to true; the message with
\* exactly the options Yes and No is appended by a later step.
C25_FollowupThenOptions ==
  /\ [][(lastEvent'.name = "timer" /\ lastEvent'.arg = "timePassed"
           /\ ~userHasStopped)
          => /\ Len(messages') >= Len(messages) + 2
             /\ SubSeq(messages', 1, Len(messages)) = messages
             /\ SubSeq(messages', Len(messages') - 1, Len(messages')) =
                  <<Message("bot", ADT_INTRO_MESSAGE, <<>>),
                    Message("bot", FollowupText, <<>>)>>
             /\ ~AppendsQuestion
             /\ currentState' = "followup_next_day"
             /\ isAfter24HourFollowup']_vars
  /\ JustPassed ~> (OptionsAfterFollowup \/ userHasStopped)

\* the options have arrived after the follow-up question
C25_Witness ==
  /\ FollowedUp
  /\ OptionsAfterFollowup
  /\ messages[Len(messages)] = Message("bot", "", <<"Yes", "No">>)
  /\ messages[Len(messages) - 1] = Message("bot", FollowupText, <<>>)

\* the states in which handleResponseToCallQuestion takes the reply
CallQuestionStates == {"waiting_for_response", "followup_next_day"}

\* the step dispatches `label` to handleResponseToCallQuestion
AnswersCallQuestion(label) ==
  /\ selectedWorkflow # "confirm visit"
  /\ currentState \in CallQuestionStates
  /\ label \in Dispatched

\* the redial that 'Yes' asks for is the newest pending callback
RedialPending ==
  /\ timers' # <<>>
  /\ timers'[Len(timers')].rem = MessageDelay
  /\ timers'[Len(timers')].steps = Callback("showCallingNotification")

\* C26: 'Yes' to the call question with the follow-up flag true sets the
\* state to scheduling_time and clears the flag in that step; with the flag
\* false it leaves state and flag as they are and schedules the redial, and
\* the redial sets the state to calling with the flag unchanged.
C26_YesSchedulesOrRedials ==
  [][/\ (AnswersCallQuestion("Yes") /\ isAfter24HourFollowup)
          => /\ currentState' = "scheduling_time"
             /\ ~isAfter24HourFollowup'
     /\ (AnswersCallQuestion("Yes") /\ ~isAfter24HourFollowup)
          => /\ currentState' = currentState
             /\ ~isAfter24HourFollowup'
             /\ RedialPending
     /\ (lastEvent'.name = "timer" /\ lastEvent'.arg = "showCallingNotification")
          => /\ currentState' = "calling"
             /\ isAfter24HourFollowup' = isAfter24HourFollowup]_vars

\* 'Yes' to the follow-up question has opened the picker
C26_Witness ==
  /\ lastEvent.name \in {"handleOptionSelect", "classified"}
  /\ lastEvent.arg = "Yes"
  /\ currentState = "scheduling_time"
  /\ ~isAfter24HourFollowup
  /\ OptionsAfterFollowup

\* 'Yes' to the first call question has redialled
C26_WitnessRedial ==
  /\ lastEvent.name = "timer"
  /\ lastEvent.arg = "showCallingNotification"
  /\ currentState = "calling"
  /\ \E i \in 1..Len(messages) :
       messages[i].sender = "user" /\ messages[i].text = "Yes"

\* the newest pending callback, after the step, runs `steps` in `units`
Scheduled(units, steps) ==
  /\ timers' # <<>>
  /\ timers'[Len(timers')].rem = units
  /\ timers'[Len(timers')].steps = steps

\* the last reply was dispatched as `label`
Replied(label) ==
  /\ lastEvent.name \in {"handleOptionSelect", "classified"}
  /\ lastEvent.arg = label

\* 'No' has just asked for a better time
AskedBetterTime ==
  /\ Replied("No")
  /\ currentState = "asking_better_time"
  /\ \E i \in 1..Len(timers) :
       timers[i].steps = <<BotStep(BetterTimeText, YesNoOptions)>>

\* 'No' to the follow-up question has just started the 24 hours again
LoopsAgain ==
  /\ Replied("No")
  /\ FollowedUp
  /\ OptionsAfterFollowup
  /\ messages[Len(messages)] = Message("user", "No", <<>>)

\* the better-time question is in the log with the options Yes and No
BetterTimeAsked ==
  \E i \in 1..Len(messages) :
    messages[i] = Message("bot", BetterTimeText, <<"Yes", "No">>)

\* C27: 'No' to the call question with the follow-up flag false sets the
\* state to asking_better_time and the better-time question with the
\* options Yes and No follows; with the flag true it keeps state and flag,
\* starts the 24 hours again, and these pass into followup_next_day with
\* the flag true; the steps of the 24 hours never set the state to ended.
C27_NoAsksOrLoops ==
  /\ [][/\ (AnswersCallQuestion("No") /\ ~isAfter24HourFollowup)
             => /\ currentState' = "asking_better_time"
                /\ ~isAfter24HourFollowup'
                /\ Scheduled(MessageDelay, <<BotStep(BetterTimeText, YesNoOptions)>>)
        /\ (AnswersCallQuestion("No") /\ isAfter24HourFollowup)
             => /\ currentState' = currentState
                /\ isAfter24HourFollowup'
                /\ Scheduled(AnimationDuration, Callback("animationComplete"))
        /\ (lastEvent'.name = "timer" /\ lastEvent'.arg = "animationComplete")
             => /\ currentState' = currentState
                /\ isAfter24HourFollowup' = isAfter24HourFollowup
                /\ Scheduled(MessageDelay, Callback("timePassed"))]_vars
  /\ AskedBetterTime ~> (BetterTimeAsked \/ userHasStopped)
  /\ LoopsAgain ~> (JustPassed /\ FollowedUp)

\* the 24 hours have passed a second time, after 'No' to the follow-up
C27_Witness ==
  /\ JustPassed
  /\ FollowedUp
  /\ \E i \in 1..Len(messages) - 3 :
       /\ messages[i] = Message("bot", "", <<"Yes", "No">>)
       /\ messages[i + 1] = Message("user", "No", <<>>)
       /\ messages[i + 2] = Message("bot", ADT_INTRO_MESSAGE, <<>>)
       /\ messages[i + 3] = Message("bot", FollowupText, <<>>)

\* 'No' to the first call question has brought the better-time question
C27_WitnessAsked ==
  /\ currentState = "asking_better_time"
  /\ messages[Len(messages)] = Message("bot", BetterTimeText, <<"Yes", "No">>)

\* the picker has just been cancelled in scheduling_time
JustCancelled ==
  /\ lastEvent.name = "handleDateTimeCancel"
  /\ currentState = "asking_after_cancel"

\* the after-cancel question is in the log with the options Yes and No
AfterCancelAsked ==
  \E i \in 1..Len(messages) :
    messages[i] = Message("bot", AfterCancelText, <<"Yes", "No">>)

\* C28: a step from scheduling_time to time_scheduled is a valid confirm of
\* the picker; a valid confirm in scheduling_time sets the state to
\* time_scheduled, stores the chosen date and time and, unless the user has
\* stopped, appends the confirmation; cancelling the picker in
\* scheduling_time sets the state to asking_after_cancel and the question
\* with the options Yes and No follows.
C28_SchedulingTimeExits ==
  /\ [][currentState = "scheduling_time"
          => /\ currentState' = "time_scheduled" => ConfirmsValid
             /\ ConfirmsValid
                  => /\ currentState' = "time_scheduled"
                     /\ scheduledDateTime' = <<"2026-11-04", 9, "00">>
                     /\ ~userHasStopped
                          => messages' = Append(messages,
                               Message("bot",
                                       "We will call you again on Wednesday, November 4, 2026 at 9:00 AM.",
                                       <<>>))
             /\ (dateTimeModal /\ lastEvent'.name = "handleDateTimeCancel")
                  => /\ currentState' = "asking_after_cancel"
                     /\ scheduledDateTime' = scheduledDateTime
                     /\ Scheduled(MessageDelay,
                                  <<BotStep(AfterCancelText, YesNoOptions)>>)]_vars
  /\ JustCancelled ~> (AfterCancelAsked \/ userHasStopped)

\* a time has been scheduled from scheduling_time
C28_Witness ==
  /\ lastEvent.name = "handleDateTimeConfirm"
  /\ currentState = "time_scheduled"
  /\ scheduledDateTime = <<"2026-11-04", 9, "00">>
  /\ messages[Len(messages)].text =
       "We will call you again on Wednesday, November 4, 2026 at 9:00 AM."

\* the picker was cancelled and the question has arrived
C28_WitnessCancel ==
  /\ currentState = "asking_after_cancel"
  /\ messages[Len(messages)] = Message("bot", AfterCancelText, <<"Yes", "No">>)

\* the step dispatches `label` in `state` outside confirm visit
Answers(state, label) ==
  /\ selectedWorkflow # "confirm visit"
  /\ currentState = state
  /\ label \in Dispatched

\* 'Yes' to the after-cancel question has just been given
SaidYesAfterCancel ==
  /\ Replied("Yes")
  /\ currentState = "asking_after_cancel"
  /\ \E i \in 1..Len(timers) : timers[i].steps = Callback("showDateTimePicker")

\* 'No' to the better-time or to the after-cancel question has just
\* started the 24 hours
SaidNo ==
  /\ Replied("No")
  /\ currentState \in {"asking_better_time", "asking_after_cancel"}
  /\ \E i \in 1..Len(timers) :
       /\ timers[i].steps = Callback("animationComplete")
       /\ timers[i].rem = AnimationDuration

\* C29: 'Yes' in asking_better_time opens the picker in scheduling_time in
\* that step; 'Yes' in asking_after_cancel does so after the message delay;
\* 'No' in either state starts the 24 hours, which pass into
\* followup_next_day with the follow-up flag true.
C29_BetterTimeAndAfterCancel ==
  /\ [][/\ Answers("asking_better_time", "Yes")
             => currentState' = "scheduling_time" /\ dateTimeModal'
        /\ Answers("asking_after_cancel", "Yes")
             => /\ currentState' = currentState
                /\ Scheduled(MessageDelay, Callback("showDateTimePicker"))
        /\ (lastEvent'.name = "timer" /\ lastEvent'.arg = "showDateTimePicker")
             => currentState' = "scheduling_time" /\ dateTimeModal'
        /\ (Answers("asking_better_time", "No") \/ Answers("asking_after_cancel", "No"))
             => /\ currentState' = currentState
                /\ Scheduled(AnimationDuration, Callback("animationComplete"))]_vars
  /\ SaidYesAfterCancel ~> (currentState = "scheduling_time" /\ dateTimeModal)
  /\ SaidNo ~> (lastEvent.name = "timer" /\ lastEvent.arg = "timePassed" /\ FollowedUp)

\* 'No' to the after-cancel question has led to the follow-up
C29_Witness ==
  /\ FollowedUp
  /\ lastEvent.arg = "timePassed"
  /\ \E i \in 1..Len(messages) - 1 :
       /\ messages[i] = Message("bot", AfterCancelText, <<"Yes", "No">>)
       /\ messages[i + 1] = Message("user", "No", <<>>)

\* 'Yes' to the after-cancel question has opened the picker again
C29_WitnessYes ==
  /\ currentState = "scheduling_time"
  /\ dateTimeModal
  /\ messages[Len(messages)] = Message("user", "Yes", <<>>)
  /\ messages[Len(messages) - 1] = Message("bot", AfterCancelText, <<"Yes", "No">>)

\* 'Yes' to the better-time question has opened the picker
C29_WitnessBetterTime ==
  /\ currentState = "scheduling_time"
  /\ dateTimeModal
  /\ messages[Len(messages)] = Message("user", "Yes", <<>>)
  /\ messages[Len(messages) - 1] = Message("bot", BetterTimeText, <<"Yes", "No">>)

\* minutes since midnight of the stored date and time
ScheduledMinute(dt) == 60 * dt[2] + MinuteNumber(dt[3])

\* C30: in every state, time_scheduled implies that a date and time is
\* stored; a stored time of day lies between 09:00 and 17:00, both
\* included, and is the time that was entered; the stored date and time
\* becomes null again only in a step that resets the conversation.
C30_ScheduledWithinHours ==
  /\ [](currentState = "time_scheduled" => scheduledDateTime # <<>>)
  /\ [](scheduledDateTime # <<>>
          => /\ ScheduledMinute(scheduledDateTime) >= 9 * 60
             /\ ScheduledMinute(scheduledDateTime) <= 17 * 60)
  /\ [][/\ (scheduledDateTime' # <<>> /\ scheduledDateTime' # scheduledDateTime)
             => /\ ConfirmsEntered
                /\ ScheduledMinute(scheduledDateTime') =
                     MinuteOfDay(call.hour, call.minute, call.ampm)
        /\ (scheduledDateTime # <<>> /\ scheduledDateTime' = <<>>)
             => Restarted]_vars

\* a time was scheduled and a reset has made it null again
C30_Witness ==
  /\ lastEvent.name = "resetConversation"
  /\ scheduledDateTime = <<>>
  /\ eventsLeft.reply < MaxConfirms
  /\ currentState = "initial"

\* 4:55 PM is stored in time_scheduled
C30_WitnessStored ==
  /\ currentState = "time_scheduled"
  /\ scheduledDateTime = <<"2026-11-04", 16, "55">>

\* the step dispatches `label` in confirm_visit_waiting
AnswersVisitPrompt(label) ==
  Dispatches("confirm visit", "confirm_visit_waiting", label)

\* C31: under confirm visit, in confirm_visit_waiting, 'Yes' sets the state
\* to confirm_visit_confirmed, 'No' and 'Cancel Appointment' to
\* confirm_visit_reschedule_question, 'DNC' and 'Do not contact' to
\* confirm_visit_dnc, 'Unknown message' to unknown; from
\* confirm_visit_reschedule_question the delayed step sets
\* confirm_visit_reschedule_waiting and, unless the user has stopped,
\* appends the reschedule question with the options Yes and No.
C31_VisitPromptBranches ==
  /\ [][/\ AnswersVisitPrompt("Yes") => currentState' = "confirm_visit_confirmed"
        /\ (AnswersVisitPrompt("No") \/ AnswersVisitPrompt("Cancel Appointment"))
             => /\ currentState' = "confirm_visit_reschedule_question"
                /\ Scheduled(MessageDelay, Callback("confirmVisitRescheduleQuestion"))
        /\ (AnswersVisitPrompt("DNC") \/ AnswersVisitPrompt("Do not contact"))
             => currentState' = "confirm_visit_dnc"
        /\ AnswersVisitPrompt("Unknown message") => currentState' = "unknown"
        /\ (lastEvent'.name = "timer"
              /\ lastEvent'.arg = "confirmVisitRescheduleQuestion")
             => /\ currentState' = "confirm_visit_reschedule_waiting"
                /\ ~userHasStopped
                     => messages' = Append(messages,
                          Message("bot", ConfirmVisitRescheduleText, <<"Yes", "No">>))]_vars
  /\ (currentState = "confirm_visit_reschedule_question")
       ~> (/\ currentState = "confirm_visit_reschedule_waiting"
           /\ lastEvent.arg = "confirmVisitRescheduleQuestion")

\* 'Cancel Appointment' has brought the reschedule question
C31_Witness ==
  /\ currentState = "confirm_visit_reschedule_waiting"
  /\ Len(messages) >= 2
  /\ messages[Len(messages) - 1] = Message("user", "Cancel Appointment", <<>>)
  /\ messages[Len(messages)] =
       Message("bot", ConfirmVisitRescheduleText, <<"Yes", "No">>)

\* 'DNC' has ended the confirm-visit conversation
C31_WitnessDnc ==
  /\ currentState = "confirm_visit_dnc"
  /\ \E i \in 1..Len(messages) : messages[i] = Message("user", "DNC", <<>>)

\* how often the reschedule question with its options is in the log
RescheduleQuestions ==
  Cardinality({i \in 1..Len(messages) :
     messages[i] = Message("bot", ConfirmVisitRescheduleText, <<"Yes", "No">>)})

\* the picker has just been cancelled in the confirm-visit conversation
JustCancelledVisit ==
  /\ lastEvent.name = "handleDateTimeCancel"
  /\ currentState = "confirm_visit_reschedule_waiting"

\* C32: cancelling the picker in confirm_visit_reschedule_selecting_time
\* sets the state to confirm_visit_reschedule_waiting, never to
\* asking_after_cancel, hides the picker, and the reschedule question with
\* the options Yes and No is appended once more after the message delay.
C32_VisitPickerCancel ==
  /\ [][currentState = "confirm_visit_reschedule_selecting_time"
          => /\ currentState' # "asking_after_cancel"
             /\ lastEvent'.name = "handleDateTimeCancel"
                  => /\ currentState' = "confirm_visit_reschedule_waiting"
                     /\ ~dateTimeModal'
                     /\ messages' = messages
                     /\ Scheduled(MessageDelay,
                          <<BotStep(ConfirmVisitRescheduleText, YesNoOptions)>>)]_vars
  /\ \A n \in 1..MaxReplies - 2 :
       (JustCancelledVisit /\ RescheduleQuestions = n)
         ~> (RescheduleQuestions > n \/ userHasStopped)

\* the picker was cancelled and the reschedule question asked a second time
C32_Witness ==
  /\ currentState = "confirm_visit_reschedule_waiting"
  /\ RescheduleQuestions = 2
  /\ messages[Len(messages)] =
       Message("bot", ConfirmVisitRescheduleText, <<"Yes", "No">>)
  /\ messages[Len(messages) - 1] = Message("user", "Yes", <<>>)

\* categorizeUserResponse has returned for the text of `call`
Categorized == call.by = "categorizeUserResponse"

\* C33: with aiEnabled false, categorizeUserResponse makes no fetch, and
\* for every text of trimmed length at least 2 its category is the one
\* categorizeUserResponsePatternMatching gives for that text, whatever the
\* API key and whatever the classifier would have answered.
C33_DisabledUsesPatterns ==
  (Categorized /\ ~aiEnabled)
    => /\ call.fetches = 0
       /\ Len(trim(call.userText)) >= 2
            => call.category = categorizeUserResponsePatternMatching(call.userText)

\* with AI disabled and a key set, 'nope' is 'No' although the
\* classifier would have answered 'Yes'
C33_Witness ==
  /\ Categorized
  /\ ~aiEnabled
  /\ apiKey = "set"
  /\ call.userText = "nope"
  /\ call.response = [kind |-> "content", content |-> "Yes"]
  /\ call.category = "No"
  /\ call.fetches = 0

\* the classifier has answered with an empty or blank completion
EmptyCompletion ==
  /\ call.response.kind = "content"
  /\ trim(call.response.content) = ""

\* C34: with AI enabled and a key set, when the classifier answers
\* successfully with an empty or whitespace-only completion,
\* categorizeUserResponse returns the category of the pattern matching for
\* the user's text.
C34_EmptyCompletionFallsBack ==
  (/\ Categorized
   /\ aiEnabled
   /\ apiKey = "set"
   /\ Len(trim(call.userText)) >= 2
   /\ EmptyCompletion)
    => call.category = categorizeUserResponsePatternMatching(call.userText)

\* the classifier's completion contains `label`, in any case
CompletionContains(label) ==
  /\ call.response.kind = "content"
  /\ includes(toLowerCase(call.response.content), label)

\* C35: with AI enabled and a key set, a completion that contains 'do not
\* contact' is categorized 'Do not contact' and a completion that contains
\* 'unknown message' is categorized 'Unknown message', also with extra
\* characters around the label such as a trailing period.
C35_LabelWithExtraCharacters ==
  (/\ Categorized
   /\ aiEnabled
   /\ apiKey = "set"
   /\ Len(trim(call.userText)) >= 2)
    => /\ CompletionContains("do not contact")
            => call.category = "Do not contact"
       /\ CompletionContains("unknown message")
            => call.category = "Unknown message"

\* the label itself, without extra characters, has been categorized
C35_ExactLabel ==
  /\ Categorized
  /\ aiEnabled
  /\ apiKey = "set"
  /\ call.response = [kind |-> "content", content |-> "Do not contact"]
  /\ call.category = "Do not contact"

\* a text that handleTextInput neither drops, nor takes as STOP, nor as
\* the wish to confirm a visit
Ordinary(value) ==
  /\ Trimmed[value] # ""
  /\ UpperCased[Trimmed[value]] # "STOP"
  /\ ~(selectedWorkflow = "webform" /\ ConfirmVisitIntent[Trimmed[value]])

\* the user's messages in a log
UserCount(log) == Cardinality({i \in 1..Len(log) : log[i].sender = "user"})

\* C36: submitting a text that is not empty, not STOP and not a workflow
\* switch appends the trimmed text as a user message in that step; its
\* category is dispatched to handleOptionSelect either in that step (no
\* classifier call) or, with the text in flight, in the one step in which
\* its classification returns, which takes it out of flight; every text in
\* flight is dispatched in the end.
C36_TextDispatchedOnce ==
  /\ [][/\ \A value \in Texts :
             (Ordinary(value) /\ lastEvent' = Event("handleTextInput", value))
               => /\ Len(messages') > Len(messages)
                  /\ messages'[Len(messages) + 1] =
                       Message("user", Trimmed[value], <<>>)
                  /\ IF ReadsApiKey(Session, value) /\ apiKey' = "set"
                     THEN /\ inFlight' = Append(inFlight,
                                 [text |-> Trimmed[value], stale |-> FALSE])
                          /\ UserCount(messages') = UserCount(messages) + 1
                     ELSE /\ inFlight' = inFlight
                          /\ UserCount(messages') = UserCount(messages) + 2
                          /\ messages'[Len(messages) + 2].sender = "user"
                          /\ messages'[Len(messages) + 2].text \in ResponseCategory
        /\ lastEvent'.name = "classified"
             => /\ \E i \in 1..Len(inFlight) : inFlight' = RemoveAt(inFlight, i)
                /\ UserCount(messages') = UserCount(messages) + 1
                /\ messages'[Len(messages) + 1] =
                     Message("user", lastEvent'.arg, <<>>)
                /\ lastEvent'.arg \in ResponseCategory
        /\ Len(inFlight') < Len(inFlight) => lastEvent'.name = "classified"]_vars
  /\ (inFlight # <<>>) ~> (inFlight = <<>>)

\* 'not now' was submitted, classified by the classifier and dispatched
C36_Witness ==
  /\ lastEvent.name = "classified"
  /\ inFlight = <<>>
  /\ apiKey = "set"
  /\ \E i \in 1..Len(messages) - 1 :
       /\ messages[i] = Message("user", "not now", <<>>)
       /\ messages[i + 1] = Message("user", lastEvent.arg, <<>>)

\* C37: submitting a text that is empty after trimming changes nothing: no
\* message is appended, no text goes to the classifier and no callback is
\* scheduled, the API key is not read, and workflow, state, flags and the
\* stored date and time are as before.
C37_EmptyTextIsNoOp ==
  [][\A value \in Texts :
       (Trimmed[value] = "" /\ lastEvent' = Event("handleTextInput", value))
         => UNCHANGED <<messages, inFlight, timers, apiKey, selectedWorkflow,
                        selectedVersion, aiEnabled, currentState,
                        isAfter24HourFollowup, userHasStopped,
                        scheduledDateTime, inputArea, dateTimeModal>>]_vars

\* blank text has been submitted to a conversation that awaits a reply
C37_Witness ==
  /\ lastEvent = Event("handleTextInput", "  ")
  /\ currentState \in AwaitingReply
  /\ messages # <<>>
  /\ messages[Len(messages)].sender = "bot"

\* the step submits a text that says the user wants to confirm a visit
SubmitsIntent(value) ==
  /\ ConfirmVisitIntent[Trimmed[value]]
  /\ lastEvent' = Event("handleTextInput", value)

\* C38: a submitted text changes the workflow only from webform, and then
\* to confirm visit; under product question and under confirm visit a text
\* with a confirm-visit phrase leaves the workflow and the state's family
\* alone, is appended as a user message and is classified and dispatched
\* like any other text: put in flight for the classifier, or dispatched at
\* once with the category of the pattern matching.
C38_SwitchOnlyFromWebform ==
  [][/\ (lastEvent'.name \in {"handleTextInput", "classified"}
           /\ selectedWorkflow' # selectedWorkflow)
          => /\ selectedWorkflow = "webform"
             /\ selectedWorkflow' = "confirm visit"
     /\ \A value \in Texts :
          (SubmitsIntent(value) /\ selectedWorkflow # "webform")
            => /\ selectedWorkflow' = selectedWorkflow
               /\ messages'[Len(messages) + 1] =
                    Message("user", Trimmed[value], <<>>)
               /\ IF aiEnabled /\ apiKey' = "set"
                  THEN /\ inFlight' = Append(inFlight,
                              [text |-> Trimmed[value], stale |-> FALSE])
                       /\ currentState' = currentState
                       /\ Len(messages') = Len(messages) + 1
                  ELSE /\ inFlight' = inFlight
                       /\ messages'[Len(messages) + 2] =
                            Message("user", PatternCategory[Trimmed[value]], <<>>)]_vars

\* under product question the wish to confirm an appointment went to the
\* classifier
C38_Witness ==
  /\ selectedWorkflow = "product question"
  /\ lastEvent = Event("handleTextInput", "I'd like to Confirm my appointment")
  /\ inFlight = <<[text |-> "I'd like to Confirm my appointment", stale |-> FALSE]>>
  /\ messages[Len(messages)] =
       Message("user", "I'd like to Confirm my appointment", <<>>)

\* from webform the same text has switched the workflow
C38_WitnessSwitch ==
  /\ selectedWorkflow = "confirm visit"
  /\ lastEvent = Event("handleTextInput", "I'd like to Confirm my appointment")
  /\ inFlight = <<>>

\* the disclosure
Disclosure == Message("bot", ADT_INTRO_MESSAGE, <<>>)

====
